---- MODULE Spec2Model ----
(***************************************************************************)
(* A model of the ai-os daemon (saquib34/ai-os): the connection acceptor   *)
(* and the session workers of ai_daemon.c, the context history of          *)
(* context_manager.c, the feedback store of learning_system.c, the model   *)
(* selector of model_manager.c and the backend client of ollama_client.c.  *)
(*                                                                         *)
(* C strings are tuples of one-character strings, so that strstr, strncpy  *)
(* and tolower are computed on the characters.  Payloads whose content the *)
(* daemon never inspects (process output, context snapshots, the bytes of  *)
(* an uninitialised buffer) are values that carry only their serialised    *)
(* length.  A JSON value is a record tagged by its field t.                *)
(***************************************************************************)
EXTENDS Integers, Sequences, FiniteSets, TLC

(***************************************************************************)
(* Bounds of the model.                                                    *)
(***************************************************************************)
\* ai_daemon.c:42 (MAX_CLIENTS 64), scaled down.
MAX_CLIENTS == 2
\* context_manager.c:19 (MAX_HISTORY_ENTRIES 50), scaled down.
MAX_HISTORY_ENTRIES == 3
\* learning_system.c:18 (MAX_FEEDBACK_ENTRIES 1000), scaled down.
MAX_FEEDBACK_ENTRIES == 3
\* Connections the acceptor accepts in one run, beyond the session table's size.
ExtraConns == 1
\* Requests received in one run, over all sessions: in Spec and in SpecDispatch.
MaxRequests == 3
DispatchRequests == 2
\* Calls of ai_context_add_command in one run of SpecContext.
MaxAdds == 5
\* Calls of learning_system_add_feedback in one run of SpecFeedback.
MaxRecords == 4
MaxSuggests == 1
ShortBuffer == 2
\* Seconds of the clock in one run of SpecModel.
MaxElapsed == 400
\* Priorities that models.json gives: one in the range of the built-in ones, one so low
\* in rank that no score reaches the selector's starting best_score.
FlatPriority == 5
\* Calls of model_manager_update_stats in one run of SpecStats, enough for the score to
\* be recomputed (ten requests of one profile), and the response times given, in ms: one
\* under the thirty seconds that the score formula divides by, one over.
MaxStatsCalls == 11
\* Calls of model_manager_update_stats in one run of SpecSelect.
MaxSelectStats == 2
ResponseFast == 2000
ResponseSlow == 60000
FloorPriority == 210
\* The clock's short step in SpecModel; the long one is one second under two short ones.
TickStep == 100
\* Times the clock passes the context's refresh age in one run of SpecDispatch.
DispatchTicks == 1
MaxSummaryCalls == 2
MaxBackendCalls == 2
SummaryTicks == 2
\* Session workers that call the model manager at once.
NumWorkers == 2
\* Serialised bytes of the text fields of a context (directory, user, host, environment,
\* process list, ports, disk usage) taken together: a small snapshot, and one that is
\* larger than the response buffer.
SmallSnapshot == 600
LargeSnapshot == 9000
\* Bytes that a read of an uninitialised buffer running past its end serialises to.
OverrunLen == 9000
\* Length of the long command, reply and feedback texts (longer than every text buffer
\* they are copied into by ai_context_add_command and learning_system_add_feedback).
LongLen == 600

(***************************************************************************)
(* Program constants.                                                      *)
(***************************************************************************)
MAX_COMMAND_LEN == 4096
RECENT_COMMAND_SIZE == 256
NATURAL_COMMAND_SIZE == 512
INTERPRETED_COMMAND_SIZE == 512
MODEL_USED_SIZE == 64
CHAT_RESPONSE_SIZE == 1024
EXEC_OUTPUT_SIZE == 4096
CONTEXT_STALE_SECONDS == 5
\* ollama_client.c:243, 251.
max_attempts == 5
BACKOFF_CAP == 16
SWITCH_COOLDOWN == 300
MODELS_LIST_SIZE == 1024
CURRENT_MODEL_SIZE == 64
FGETS_SIZE == 1024
\* time(NULL) when the run starts: any value beyond the cooldown.
StartTime == 1000

(***************************************************************************)
(* C strings.                                                              *)
(***************************************************************************)
Min(a, b) == IF a < b THEN a ELSE b

\* strncpy(dst, src, n) followed by dst[n] = '\0' (or into a zeroed buffer): the first n
\* characters of src.
strncpy(src, n) == SubSeq(src, 1, Min(Len(src), n))

\* strstr(haystack, needle) != NULL.
strstr(haystack, needle) ==
  \/ Len(needle) = 0
  \/ \E i \in 1..(Len(haystack) - Len(needle) + 1) :
        SubSeq(haystack, i, i + Len(needle) - 1) = needle

ToLowerMap ==
  [A |-> "a", B |-> "b", C |-> "c", D |-> "d", E |-> "e", F |-> "f", G |-> "g",
   H |-> "h", I |-> "i", J |-> "j", K |-> "k", L |-> "l", M |-> "m", N |-> "n",
   O |-> "o", P |-> "p", Q |-> "q", R |-> "r", S |-> "s", T |-> "t", U |-> "u",
   V |-> "v", W |-> "w", X |-> "x", Y |-> "y", Z |-> "z"]

tolower(c) == IF c \in DOMAIN ToLowerMap THEN ToLowerMap[c] ELSE c

\* A text of n copies of the character c.
Repeat(c, n) == [i \in 1..n |-> c]

RECURSIVE StripTrailingNewlines(_)
\* ollama_client.c:281-285.
StripTrailingNewlines(s) ==
  IF Len(s) > 0 /\ s[Len(s)] \in {"\n", "\r"}
    THEN StripTrailingNewlines(SubSeq(s, 1, Len(s) - 1))
    ELSE s

(***************************************************************************)
(* Texts.                                                                  *)
(***************************************************************************)
\* A NULL char pointer (no text is one element long with a longer "character").
NULL == <<"NULL">>

CmdLs == <<"l","s">>
CmdRmRoot == <<"r","m"," ","-","r","f"," ","/">>
CmdPing == <<"P","i","n","g"," ","l","o","c","a","l","h","o","s","t">>
CmdGitStatus == <<"g","i","t"," ","s","t","a","t","u","s">>
LongText == Repeat("a", LongLen)
\* ollama_client.c:322 and 325, the markers a backend reply is searched for.
TextUnsafe == <<"U","N","S","A","F","E","_","C","O","M","M","A","N","D">>
TextUnclear == <<"U","N","C","L","E","A","R","_","C","O","M","M","A","N","D">>
\* ollama_client.c:287.
TextNoResponse == <<"E","R","R","O","R",":"," ","N","o"," ","r","e","s","p","o","n","s","e"," ","f","r","o","m"," ","m","o","d","e","l">>
\* ai_daemon.c:158.
TextConfirmRequired == <<"C","O","N","F","I","R","M","_","R","E","Q","U","I","R","E","D",":"," ">>
\* Replies and inputs used as test data.
TextUnsafeUnclear == TextUnsafe \o <<" ">> \o TextUnclear
TextLsNewline == <<"l","s","\n">>
TextHello == <<"h","e","l","l","o"," ","h","o","w"," ","a","r","e"," ","y","o","u"," ","t","o","d","a","y">>
\* Inputs of classify with a chat word before a command action word, with a chat word
\* alone, and with the action words in capitals.
TextHelloList == <<"h","e","l","l","o",","," ","l","i","s","t"," ","f","i","l","e","s">>
TextThanks == <<"t","h","a","n","k","s">>
TextGitAddCapitals == <<"G","I","T"," ","A","D","D"," ","A","L","L">>
TextGitAdd == <<"g","i","t"," ","a","d","d"," ","a","l","l"," ","f","i","l","e","s"," ","a","n","d"," ","p","u","s","h">>

\* ai_daemon.c:197.
MsgInvalidJson == <<"I","n","v","a","l","i","d"," ","J","S","O","N"," ","r","e","q","u","e","s","t">>
\* ai_daemon.c:418.
MsgFailedProcess == <<"F","a","i","l","e","d"," ","t","o"," ","p","r","o","c","e","s","s"," ","r","e","q","u","e","s","t">>
\* ai_daemon.c:235-263, the values of the status field.
StatusSuccess == <<"s","u","c","c","e","s","s">>
StatusUnsafe == <<"u","n","s","a","f","e">>
StatusUnclear == <<"u","n","c","l","e","a","r">>
StatusError == <<"e","r","r","o","r">>
\* ai_daemon.c:247, 250, 253.
MsgUnsafe == <<"C","o","m","m","a","n","d"," ","m","a","r","k","e","d"," ","a","s"," ","u","n","s","a","f","e"," ","b","y"," ","A","I">>
MsgUnclear == <<"C","o","m","m","a","n","d"," ","u","n","c","l","e","a","r",","," ","p","l","e","a","s","e"," ","r","e","p","h","r","a","s","e">>
MsgInterpretFailed == <<"F","a","i","l","e","d"," ","t","o"," ","i","n","t","e","r","p","r","e","t"," ","c","o","m","m","a","n","d">>
\* ai_daemon.c:165 and 186.
MsgExecFailed == <<"E","R","R","O","R",":"," ","F","a","i","l","e","d"," ","t","o"," ","e","x","e","c","u","t","e"," ","c","o","m","m","a","n","d">>
MsgExecutedPrefix == <<"C","o","m","m","a","n","d"," ","e","x","e","c","u","t","e","d"," ","s","u","c","c","e","s","s","f","u","l","l","y"," ","(","e","x","i","t"," ","c","o","d","e",":"," ">>
\* ai_daemon.c:271-272.
TextRunning == <<"r","u","n","n","i","n","g">>
TextNotAvailable == <<"n","o","t"," ","a","v","a","i","l","a","b","l","e">>
\* ai_daemon.c:283, 287.
MsgModelChanged == <<"M","o","d","e","l"," ","c","h","a","n","g","e","d"," ","s","u","c","c","e","s","s","f","u","l","l","y">>
MsgModelFailed == <<"F","a","i","l","e","d"," ","t","o"," ","c","h","a","n","g","e"," ","m","o","d","e","l">>
\* ai_daemon.c:305, 341.
TextChat == <<"c","h","a","t">>
TextCommand == <<"c","o","m","m","a","n","d">>
\* ai_daemon.c:374, 379.
MsgChatFailed == <<"F","a","i","l","e","d"," ","t","o"," ","g","e","t"," ","c","h","a","t"," ","r","e","s","p","o","n","s","e">>
MsgUnknownAction == <<"U","n","k","n","o","w","n"," ","a","c","t","i","o","n">>
\* Process output and backend replies used as test data.
TextFileList == <<"n","o","t","e","s",".","t","x","t","\n">>
TextChatReply == <<"H","e","l","l","o","!"," ","H","o","w"," ","c","a","n"," ","I"," ","h","e","l","p","?">>

(***************************************************************************)
(* Tables of the source.                                                   *)
(***************************************************************************)
\* ai_daemon.c:96-117, the pattern list of is_safe_command (inside the disabled block).
dangerous_patterns ==
  <<
    <<"r","m"," ","-","r","f"," ","/">>,
    <<"r","m"," ","-","r","f"," ","/","*">>,
    <<"d","d"," ","i","f","=">>,
    <<"m","k","f","s">>,
    <<"f","o","r","m","a","t">>,
    <<"f","d","i","s","k">>,
    <<"p","a","r","t","e","d">>,
    <<"s","h","u","t","d","o","w","n">>,
    <<"r","e","b","o","o","t">>,
    <<"h","a","l","t">>,
    <<"p","o","w","e","r","o","f","f">>,
    <<"k","i","l","l"," ","-","9"," ","1">>,
    <<"c","h","m","o","d"," ","7","7","7"," ","/">>,
    <<"c","h","o","w","n"," ","r","o","o","t",":","r","o","o","t"," ","/">>,
    <<">"," ","/","d","e","v","/","s","d","a">>,
    <<">"," ","/","d","e","v","/","s","d","b">>,
    <<"w","g","e","t"," ","h","t","t","p",":","/","/">>,
    <<"c","u","r","l"," ","h","t","t","p",":","/","/">>,
    <<":","(",")","{"," ",":","|",":","&"," ","}",";",":">>
  >>

\* ai_daemon.c:128-135, the sudo pattern list of is_safe_command (inside the disabled block).
sudo_dangerous ==
  <<
    <<"s","u","d","o"," ","r","m"," ","-","r","f">>,
    <<"s","u","d","o"," ","d","d">>,
    <<"s","u","d","o"," ","m","k","f","s">>,
    <<"s","u","d","o"," ","f","d","i","s","k">>,
    <<"s","u","d","o"," ","p","a","r","t","e","d">>
  >>

\* ai_daemon.c:308-324, the command action words of the classify action.
command_actions ==
  <<
    <<"a","d","d">>,
    <<"c","o","m","m","i","t">>,
    <<"p","u","s","h">>,
    <<"p","u","l","l">>,
    <<"c","l","o","n","e">>,
    <<"i","n","i","t">>,
    <<"s","t","a","t","u","s">>,
    <<"l","o","g">>,
    <<"b","r","a","n","c","h">>,
    <<"c","h","e","c","k","o","u","t">>,
    <<"m","e","r","g","e">>,
    <<"r","e","b","a","s","e">>,
    <<"s","t","a","s","h">>,
    <<"r","e","s","e","t">>,
    <<"r","e","v","e","r","t">>,
    <<"t","a","g">>,
    <<"f","e","t","c","h">>,
    <<"r","e","m","o","t","e">>,
    <<"c","o","n","f","i","g">>,
    <<"l","i","s","t">>,
    <<"s","h","o","w">>,
    <<"f","i","n","d">>,
    <<"s","e","a","r","c","h">>,
    <<"g","r","e","p">>,
    <<"c","a","t">>,
    <<"h","e","a","d">>,
    <<"t","a","i","l">>,
    <<"l","e","s","s">>,
    <<"m","o","r","e">>,
    <<"c","r","e","a","t","e">>,
    <<"d","e","l","e","t","e">>,
    <<"r","e","m","o","v","e">>,
    <<"r","m">>,
    <<"m","k","d","i","r">>,
    <<"t","o","u","c","h">>,
    <<"c","p">>,
    <<"c","o","p","y">>,
    <<"m","v">>,
    <<"m","o","v","e">>,
    <<"i","n","s","t","a","l","l">>,
    <<"u","n","i","n","s","t","a","l","l">>,
    <<"u","p","d","a","t","e">>,
    <<"u","p","g","r","a","d","e">>,
    <<"d","o","w","n","l","o","a","d">>,
    <<"w","g","e","t">>,
    <<"c","u","r","l">>,
    <<"s","c","p">>,
    <<"r","s","y","n","c">>,
    <<"r","u","n">>,
    <<"s","t","a","r","t">>,
    <<"s","t","o","p">>,
    <<"r","e","s","t","a","r","t">>,
    <<"k","i","l","l">>,
    <<"p","k","i","l","l">>,
    <<"k","i","l","l","a","l","l">>,
    <<"p","s">>,
    <<"t","o","p">>,
    <<"h","t","o","p">>,
    <<"c","h","e","c","k">>,
    <<"t","e","s","t">>,
    <<"v","e","r","i","f","y">>,
    <<"v","a","l","i","d","a","t","e">>,
    <<"g","e","t">>,
    <<"s","e","t">>,
    <<"e","x","p","o","r","t">>,
    <<"i","m","p","o","r","t">>,
    <<"s","o","u","r","c","e">>,
    <<"o","p","e","n">>,
    <<"c","l","o","s","e">>,
    <<"e","d","i","t">>,
    <<"v","i","e","w">>,
    <<"r","e","a","d">>,
    <<"w","r","i","t","e">>,
    <<"s","a","v","e">>,
    <<"l","o","a","d">>,
    <<"b","a","c","k","u","p">>,
    <<"r","e","s","t","o","r","e">>,
    <<"b","u","i","l","d">>,
    <<"c","o","m","p","i","l","e">>,
    <<"m","a","k","e">>,
    <<"c","m","a","k","e">>,
    <<"c","o","n","f","i","g","u","r","e">>,
    <<"i","n","s","t","a","l","l">>,
    <<"u","n","i","n","s","t","a","l","l">>,
    <<"p","a","c","k","a","g","e">>,
    <<"m","o","u","n","t">>,
    <<"u","m","o","u","n","t">>,
    <<"f","o","r","m","a","t">>,
    <<"p","a","r","t","i","t","i","o","n">>,
    <<"f","s","c","k">>,
    <<"d","d">>,
    <<"t","a","r">>,
    <<"z","i","p">>,
    <<"u","n","z","i","p">>,
    <<"c","h","m","o","d">>,
    <<"c","h","o","w","n">>,
    <<"c","h","g","r","p">>,
    <<"u","m","a","s","k">>,
    <<"s","u","d","o">>,
    <<"s","u">>,
    <<"w","h","o","a","m","i">>,
    <<"i","d">>,
    <<"g","r","o","u","p","s">>,
    <<"p","i","n","g">>,
    <<"t","r","a","c","e","r","o","u","t","e">>,
    <<"n","e","t","s","t","a","t">>,
    <<"s","s">>,
    <<"i","p","t","a","b","l","e","s">>,
    <<"f","i","r","e","w","a","l","l">>,
    <<"u","f","w">>,
    <<"d","o","c","k","e","r">>,
    <<"p","o","d","m","a","n">>,
    <<"k","u","b","e","c","t","l">>,
    <<"h","e","l","m">>,
    <<"t","e","r","r","a","f","o","r","m">>,
    <<"a","n","s","i","b","l","e">>,
    <<"p","y","t","h","o","n">>,
    <<"p","i","p">>,
    <<"n","o","d","e">>,
    <<"n","p","m">>,
    <<"y","a","r","n">>,
    <<"c","a","r","g","o">>,
    <<"g","o">>,
    <<"j","a","v","a">>,
    <<"m","a","v","e","n">>,
    <<"g","r","a","d","l","e">>
  >>

\* ai_daemon.c:327-336, the chat words of the classify action.
chat_words ==
  <<
    <<"h","e","l","l","o">>,
    <<"h","i">>,
    <<"h","e","y">>,
    <<"g","o","o","d"," ","m","o","r","n","i","n","g">>,
    <<"g","o","o","d"," ","a","f","t","e","r","n","o","o","n">>,
    <<"g","o","o","d"," ","e","v","e","n","i","n","g">>,
    <<"h","o","w"," ","a","r","e"," ","y","o","u">>,
    <<"h","o","w"," ","d","o"," ","y","o","u">>,
    <<"w","h","a","t"," ","i","s">>,
    <<"w","h","a","t"," ","a","r","e">>,
    <<"w","h","o"," ","i","s">>,
    <<"w","h","o"," ","a","r","e">>,
    <<"w","h","e","n"," ","i","s">>,
    <<"w","h","e","n"," ","w","i","l","l">>,
    <<"w","h","e","r","e"," ","i","s">>,
    <<"w","h","e","r","e"," ","a","r","e">>,
    <<"w","h","y"," ","i","s">>,
    <<"w","h","y"," ","a","r","e">>,
    <<"t","e","l","l"," ","m","e">>,
    <<"e","x","p","l","a","i","n">>,
    <<"d","e","s","c","r","i","b","e">>,
    <<"d","e","f","i","n","e">>,
    <<"w","h","a","t"," ","d","o","e","s">>,
    <<"h","o","w"," ","d","o","e","s">>,
    <<"j","o","k","e">>,
    <<"f","u","n","n","y">>,
    <<"h","u","m","o","r">>,
    <<"w","e","a","t","h","e","r">>,
    <<"t","i","m","e">>,
    <<"d","a","t","e">>,
    <<"t","e","m","p","e","r","a","t","u","r","e">>,
    <<"t","h","a","n","k","s">>,
    <<"t","h","a","n","k"," ","y","o","u">>,
    <<"a","p","p","r","e","c","i","a","t","e">>,
    <<"h","e","l","p">>,
    <<"p","l","e","a","s","e">>,
    <<"c","o","u","l","d"," ","y","o","u">>,
    <<"w","o","u","l","d"," ","y","o","u">>,
    <<"c","a","n"," ","y","o","u">>,
    <<"s","h","o","u","l","d"," ","I">>,
    <<"d","o"," ","y","o","u"," ","t","h","i","n","k">>,
    <<"w","h","a","t"," ","d","o"," ","y","o","u"," ","t","h","i","n","k">>
  >>

\* model_manager.c:143-173: each row is <<task type, pattern text>>; the pattern text is
\* one C string (the '|' and '.*' are ordinary characters of it).
task_patterns ==
  <<
    <<"file_ops", <<"f","i","l","e","|","f","i","l","e","s","|","d","o","c","u","m","e","n","t","|","f","o","l","d","e","r","|","d","i","r","e","c","t","o","r","y","|","p","a","t","h","|","l","s","|","f","i","n","d","|","g","r","e","p","|","c","a","t","|","h","e","a","d","|","t","a","i","l","|","c","p","|","m","v","|","r","m","|","m","k","d","i","r","|","t","o","u","c","h">>>>,
    <<"file_ops", <<"s","h","o","w",".","*","f","i","l","e","|","l","i","s","t",".","*","f","i","l","e","|","c","r","e","a","t","e",".","*","f","i","l","e","|","d","e","l","e","t","e",".","*","f","i","l","e","|","m","o","v","e",".","*","f","i","l","e","|","c","o","p","y",".","*","f","i","l","e">>>>,
    <<"process_ops", <<"p","r","o","c","e","s","s","|","p","r","o","c","e","s","s","e","s","|","p","s","|","k","i","l","l","|","p","k","i","l","l","|","p","g","r","e","p","|","t","o","p","|","h","t","o","p","|","s","y","s","t","e","m","c","t","l","|","s","e","r","v","i","c","e","|","d","a","e","m","o","n">>>>,
    <<"process_ops", <<"s","h","o","w",".","*","p","r","o","c","e","s","s","|","l","i","s","t",".","*","p","r","o","c","e","s","s","|","k","i","l","l",".","*","p","r","o","c","e","s","s","|","s","t","a","r","t",".","*","s","e","r","v","i","c","e","|","s","t","o","p",".","*","s","e","r","v","i","c","e">>>>,
    <<"network_ops", <<"n","e","t","w","o","r","k","|","n","e","t","w","o","r","k","i","n","g","|","c","o","n","n","e","c","t","i","o","n","|","p","o","r","t","|","s","o","c","k","e","t","|","h","t","t","p","|","h","t","t","p","s","|","f","t","p","|","s","s","h","|","t","e","l","n","e","t","|","p","i","n","g","|","c","u","r","l","|","w","g","e","t">>>>,
    <<"network_ops", <<"c","h","e","c","k",".","*","c","o","n","n","e","c","t","i","o","n","|","t","e","s","t",".","*","n","e","t","w","o","r","k","|","s","h","o","w",".","*","p","o","r","t","s","|","l","i","s","t",".","*","c","o","n","n","e","c","t","i","o","n","s">>>>,
    <<"system_ops", <<"s","y","s","t","e","m","|","h","a","r","d","w","a","r","e","|","c","p","u","|","m","e","m","o","r","y","|","r","a","m","|","d","i","s","k","|","s","t","o","r","a","g","e","|","p","e","r","f","o","r","m","a","n","c","e","|","m","o","n","i","t","o","r","|","r","e","s","o","u","r","c","e">>>>,
    <<"system_ops", <<"s","h","o","w",".","*","m","e","m","o","r","y","|","c","h","e","c","k",".","*","d","i","s","k","|","m","o","n","i","t","o","r",".","*","s","y","s","t","e","m","|","s","y","s","t","e","m",".","*","i","n","f","o">>>>,
    <<"dev_ops", <<"c","o","d","e","|","c","o","d","i","n","g","|","d","e","v","e","l","o","p","m","e","n","t","|","p","r","o","g","r","a","m","m","i","n","g","|","c","o","m","p","i","l","e","|","b","u","i","l","d","|","d","e","p","l","o","y","|","g","i","t","|","g","i","t","h","u","b","|","r","e","p","o","s","i","t","o","r","y">>>>,
    <<"dev_ops", <<"g","i","t",".","*","p","u","s","h","|","g","i","t",".","*","p","u","l","l","|","g","i","t",".","*","c","o","m","m","i","t","|","b","u","i","l","d",".","*","p","r","o","j","e","c","t","|","d","e","p","l","o","y",".","*","a","p","p","l","i","c","a","t","i","o","n">>>>,
    <<"data_ops", <<"d","a","t","a","|","d","a","t","a","b","a","s","e","|","d","b","|","s","q","l","|","n","o","s","q","l","|","q","u","e","r","y","|","s","e","a","r","c","h","|","f","i","l","t","e","r","|","s","o","r","t","|","e","x","p","o","r","t","|","i","m","p","o","r","t">>>>,
    <<"data_ops", <<"s","e","a","r","c","h",".","*","d","a","t","a","|","q","u","e","r","y",".","*","d","a","t","a","b","a","s","e","|","e","x","p","o","r","t",".","*","d","a","t","a","|","i","m","p","o","r","t",".","*","d","a","t","a">>>>,
    <<"security_ops", <<"s","e","c","u","r","i","t","y","|","p","e","r","m","i","s","s","i","o","n","|","a","c","c","e","s","s","|","a","u","t","h","e","n","t","i","c","a","t","i","o","n","|","a","u","t","h","o","r","i","z","a","t","i","o","n","|","l","o","g","i","n","|","u","s","e","r","|","g","r","o","u","p","|","s","u","d","o">>>>,
    <<"security_ops", <<"c","h","e","c","k",".","*","p","e","r","m","i","s","s","i","o","n","s","|","s","e","t",".","*","p","e","r","m","i","s","s","i","o","n","s","|","s","e","c","u","r","i","t","y",".","*","s","c","a","n","|","u","s","e","r",".","*","m","a","n","a","g","e","m","e","n","t">>>>
  >>

ModelCodellama == <<"c","o","d","e","l","l","a","m","a",":","7","b","-","i","n","s","t","r","u","c","t">>
ModelPhi3 == <<"p","h","i","3",":","m","i","n","i">>
ModelLlama == <<"l","l","a","m","a","3",".","2",":","3","b">>
ModelMistral == <<"m","i","s","t","r","a","l",":","7","b","-","i","n","s","t","r","u","c","t">>
ModelUnknown == <<"g","p","t">>

\* model_manager.c:63-124, the registry as initialised.  Scores are in thousandths,
\* avg_response_time in milliseconds; task_types is the comma-separated list, split.
InitialRegistry ==
  <<[name |-> ModelCodellama, task_types |-> <<"dev_ops", "file_ops", "system_ops">>,
     performance_score |-> 850, success_count |-> 0, failure_count |-> 0,
     avg_response_time |-> 0, priority |-> 1, enabled |-> TRUE],
    [name |-> ModelPhi3, task_types |-> <<"general", "file_ops", "process_ops">>,
     performance_score |-> 750, success_count |-> 0, failure_count |-> 0,
     avg_response_time |-> 0, priority |-> 2, enabled |-> TRUE],
    [name |-> ModelLlama, task_types |-> <<"general", "network_ops", "data_ops">>,
     performance_score |-> 800, success_count |-> 0, failure_count |-> 0,
     avg_response_time |-> 0, priority |-> 3, enabled |-> TRUE],
    [name |-> ModelMistral, task_types |-> <<"security_ops", "dev_ops", "system_ops">>,
     performance_score |-> 900, success_count |-> 0, failure_count |-> 0,
     avg_response_time |-> 0, priority |-> 0, enabled |-> TRUE]>>

\* model_manager.c:126.
MAX_MODELS == Len(InitialRegistry)

\* model_manager.c:222-226, the task types in enumeration order.
task_types_order ==
  <<"file_ops", "process_ops", "network_ops", "system_ops", "dev_ops", "data_ops",
    "security_ops", "general">>

(***************************************************************************)
(* State.                                                                  *)
(***************************************************************************)
VARIABLES
  now,            \* time(NULL)
  ctx,            \* SpecContext: one ai_context_t
  inserted,       \* SpecContext: every command passed to ai_context_add_command, in order
  summary,        \* context_manager.c:152, the static buffer of ai_context_to_summary
  sum_threads,    \* SpecSummary: each session worker's place, its context, what it read
  g_client,       \* ollama_client.c:80: the mutex's holder, the users of curl_handle
  oc_threads,     \* SpecBackend: each worker's place in its ollama_client call
  feedback_db,    \* learning_system.c:29-30, feedback_db[0 .. feedback_count-1]
  feedback_file,  \* the content of FEEDBACK_FILE
  recorded,       \* the entries loaded and then recorded since the last load, in order
  fb_base,        \* how many entries the last load brought in
  fb_calls,       \* how many learning_system_add_feedback calls were made
  fb_suggest,     \* the last learning_system_suggest call: arguments, store, result
  fb_threads,     \* SpecRecord: each worker's place in learning_system_add_feedback
  fb_written,     \* SpecRecord: the last save of a record call: by whom, what was written
  g_model_manager,  \* model_manager.c:129-140; current_model is an index of the registry
  model_registry, \* model_manager.c:63-124
  mm_threads,     \* each worker's place in model_manager_select_model, and its locals
  mm_last,        \* the last model_manager call that returned: what it saw and left
  mm_switch,      \* the last change of current_model that was committed: by whom, when
  stats_mutex,    \* g_model_manager.stats_mutex: 0 when free, else the thread that holds it
  stats_threads,  \* per thread: where it is in model_manager_update_stats, its arguments
  stats_calls,    \* how many model_manager_update_stats calls returned, by the name given
  g_daemon,       \* ai_daemon.c:46-57: running, current_model, safety_mode, confirmation_required
  clients,        \* g_daemon.clients, and the place of each slot's worker thread
  acceptor,       \* the main thread: its place, the slot index of its scan, the accepted socket
  conns,          \* what became of each connection
  closes,         \* how many close() calls were made on each connection's descriptor
  popen_log,      \* the commands that execute_command_safely handed to a shell
  sent,           \* the last message a worker sent, with the request it answers
  offered,        \* the commands that interpret returned while confirmation was required
  nreq            \* how many requests were received

sumVars == <<summary, sum_threads>>
ocVars == <<g_client, oc_threads>>
ctxVars == <<ctx, inserted, sumVars, ocVars>>
recVars == <<fb_threads, fb_written>>
fbVars == <<feedback_db, feedback_file, recorded, fb_base, fb_calls, fb_suggest, recVars>>
statsVars == <<stats_mutex, stats_threads, stats_calls>>
mmVars == <<g_model_manager, model_registry, mm_threads, mm_last, mm_switch, statsVars>>
dVars == <<g_daemon, clients, acceptor, conns, closes, popen_log, sent, offered, nreq>>
vars ==
  <<now, ctx, inserted, summary, sum_threads, g_client, oc_threads, feedback_db, feedback_file, recorded, fb_base, fb_calls,
    fb_suggest, fb_threads, fb_written,
    g_model_manager, model_registry, mm_threads, mm_last, mm_switch,
    stats_mutex, stats_threads, stats_calls,
    g_daemon, clients, acceptor, conns, closes, popen_log, sent, offered, nreq>>

(***************************************************************************)
(* context_manager.c                                                       *)
(***************************************************************************)
\* ai_context_create: memset(ctx, 0), last_update = time(NULL).  identity_at is when the
\* directory, the user (with the shell) and the host were read, snapshot_at when the
\* environment, the process list, the ports and the disk usage were.
ai_context_create(t, snapshot_len) ==
  [recent_commands |-> <<>>, last_update |-> t, snapshot_len |-> snapshot_len,
   identity_at |-> t, snapshot_at |-> t]

\* The mutant of ai_context_add_command that overwrites the newest entry of a full history.
ai_context_add_command_overwrite(c, command) ==
  IF command = NULL
    THEN [ctx |-> c, rc |-> -1]
    ELSE LET kept == IF Len(c.recent_commands) >= MAX_HISTORY_ENTRIES
                       THEN SubSeq(c.recent_commands, 1, MAX_HISTORY_ENTRIES - 1)
                       ELSE c.recent_commands
         IN  [ctx |-> [c EXCEPT !.recent_commands =
                          Append(kept, strncpy(command, RECENT_COMMAND_SIZE - 1))],
              rc |-> 0]

\* ai_context_add_command: command_count is Len(recent_commands).
ai_context_add_command(c, command) ==
  IF command = NULL
    THEN [ctx |-> c, rc |-> -1]
    ELSE LET shifted == IF Len(c.recent_commands) >= MAX_HISTORY_ENTRIES
                          THEN [i \in 1..(MAX_HISTORY_ENTRIES - 1) |-> c.recent_commands[i + 1]]
                          ELSE c.recent_commands
         IN  [ctx |-> [c EXCEPT !.recent_commands =
                          Append(shifted, strncpy(command, RECENT_COMMAND_SIZE - 1))],
              rc |-> 0]

\* The mutant of ai_context_needs_refresh that never finds a context stale.
ai_context_never_stale(c, t) == FALSE

\* ai_context_update: get_current_directory, get_user_info, get_hostname, last_update.
ai_context_update(c, t) == [c EXCEPT !.last_update = t, !.identity_at = t]

\* ai_context_needs_refresh.
ai_context_needs_refresh(c, t) == (t - c.last_update) > CONTEXT_STALE_SECONDS

(***************************************************************************)
(* learning_system.c                                                       *)
(***************************************************************************)
NoFile == [exists |-> FALSE, entries |-> <<>>]

\* What lines 119-123 (and 54-65) leave in a feedback_entry_t.
feedback_entry(natural, interpreted, accepted, model, t) ==
  [natural_command |-> strncpy(natural, NATURAL_COMMAND_SIZE - 1),
   interpreted_command |-> strncpy(interpreted, INTERPRETED_COMMAND_SIZE - 1),
   accepted |-> accepted,
   model_used |-> strncpy(model, MODEL_USED_SIZE - 1),
   timestamp |-> t]

\* The mutant of learning_system_add_feedback that evicts the newest entry of a full store.
learning_system_add_feedback_newest(db, natural, interpreted, accepted, model, t) ==
  LET kept == IF Len(db) >= MAX_FEEDBACK_ENTRIES
                THEN SubSeq(db, 1, MAX_FEEDBACK_ENTRIES - 1)
                ELSE db
  IN  Append(kept, feedback_entry(natural, interpreted, accepted, model, t))

\* learning_system_add_feedback, lines 111-124: the store after the call.
learning_system_add_feedback(db, natural, interpreted, accepted, model, t) ==
  LET moved == IF Len(db) >= MAX_FEEDBACK_ENTRIES
                 THEN [i \in 1..(MAX_FEEDBACK_ENTRIES - 1) |-> db[i + 1]]
                 ELSE db
  IN  Append(moved, feedback_entry(natural, interpreted, accepted, model, t))

\* learning_system_save_feedback: the file it writes; a failed write leaves the file.
learning_system_save_feedback(db, file, write_ok) ==
  IF write_ok THEN [exists |-> TRUE, entries |-> db] ELSE file

\* strcasecmp: 0 when the two texts are equal with letters lowered, 1 for any difference
\* (the sign of a difference is not used by the callers).
strcasecmp(s1, s2) ==
  IF [i \in 1..Len(s1) |-> tolower(s1[i])] = [i \in 1..Len(s2) |-> tolower(s2[i])]
    THEN 0 ELSE 1

\* learning_system_suggest with the test of the accepted flag left out of line 133.
RECURSIVE suggest_scan_any(_, _, _, _)
suggest_scan_any(db, natural, size, i) ==
  IF i < 1
    THEN [rc |-> 0, suggested |-> <<>>]
    ELSE IF strcasecmp(db[i].natural_command, natural) = 0
           THEN [rc |-> 1, suggested |-> strncpy(db[i].interpreted_command, size - 1)]
           ELSE suggest_scan_any(db, natural, size, i - 1)

learning_system_suggest_any(db, natural, size) == suggest_scan_any(db, natural, size, Len(db))

\* learning_system_suggest, lines 131-139: the loop from index i down; the first entry
\* with a nonzero accepted flag and an equal text gives its command, cut to size - 1.
RECURSIVE suggest_scan(_, _, _, _)
suggest_scan(db, natural, size, i) ==
  IF i < 1
    THEN [rc |-> 0, suggested |-> <<>>]
    ELSE IF db[i].accepted # 0 /\ strcasecmp(db[i].natural_command, natural) = 0
           THEN [rc |-> 1, suggested |-> strncpy(db[i].interpreted_command, size - 1)]
           ELSE suggest_scan(db, natural, size, i - 1)

\* learning_system_suggest: the return value and what the caller's buffer was given
\* (nothing is written to it when 0 is returned).
learning_system_suggest(db, natural, size) == suggest_scan(db, natural, size, Len(db))

\* learning_system_load_feedback: the store after the call.
learning_system_load_feedback(file) ==
  IF ~file.exists
    THEN <<>>
    ELSE [i \in 1..Min(Len(file.entries), MAX_FEEDBACK_ENTRIES) |->
            LET e == file.entries[i]
            IN  feedback_entry(e.natural_command, e.interpreted_command,
                               e.accepted, e.model_used, e.timestamp)]

(***************************************************************************)
(* model_manager.c                                                         *)
(***************************************************************************)
\* classify_task_type, lines 229-242: how many pattern rows of the task type are
\* substrings of the lower-cased command.
task_score(lower_command, task_type) ==
  Cardinality({i \in 1..Len(task_patterns) :
                 /\ task_patterns[i][1] = task_type
                 /\ strstr(lower_command, task_patterns[i][2])})

RECURSIVE best_task_scan(_, _, _, _)
\* classify_task_type, lines 245-253: the scan over the first seven task types.
best_task_scan(lower_command, i, max_score, best_task) ==
  IF i > 7
    THEN best_task
    ELSE IF task_score(lower_command, task_types_order[i]) > max_score
           THEN best_task_scan(lower_command, i + 1,
                               task_score(lower_command, task_types_order[i]), i)
           ELSE best_task_scan(lower_command, i + 1, max_score, best_task)

\* classify_task_type.
classify_task_type(command) ==
  IF command = NULL
    THEN "general"
    ELSE LET lower_command == [i \in 1..Len(command) |-> tolower(command[i])]
         IN  task_types_order[best_task_scan(lower_command, 1, 0, 8)]

\* model_supports_task.
model_supports_task(model, task_type) ==
  \E k \in 1..Len(model.task_types) : model.task_types[k] = task_type

\* select_best_model, lines 297-313: the composite score, in thousandths.
model_score(model) ==
  LET s1 == IF model.avg_response_time > 0
              THEN model.performance_score - (model.avg_response_time \div 10)
              ELSE model.performance_score
      total_requests == model.success_count + model.failure_count
      s2 == IF total_requests > 0
              THEN (s1 * 7 + ((model.success_count * 1000) \div total_requests) * 3) \div 10
              ELSE s1
  IN  s2 + (10 - model.priority) * 10

RECURSIVE best_model_scan(_, _, _, _, _)
\* select_best_model, lines 290-319: best_model is 0 for NULL, best_score starts at -1.0.
best_model_scan(registry, task_type, i, best_model, best_score) ==
  IF i > Len(registry)
    THEN best_model
    ELSE IF /\ registry[i].enabled
            /\ model_supports_task(registry[i], task_type)
            /\ model_score(registry[i]) > best_score
           THEN best_model_scan(registry, task_type, i + 1, i, model_score(registry[i]))
           ELSE best_model_scan(registry, task_type, i + 1, best_model, best_score)

\* select_best_model.
select_best_model(registry, task_type) ==
  LET best_model == best_model_scan(registry, task_type, 1, 0, -1000)
  IN  IF best_model # 0 THEN best_model ELSE 1

\* model_manager_select_model, lines 326-334: whether the call goes on to select.
select_gate(mgr, t) ==
  /\ mgr.auto_switch_enabled
  /\ ~(t - mgr.last_switch < mgr.switch_cooldown)

\* model_manager_select_model, lines 339-353, under model_mutex: the manager after it.
select_commit(mgr, best_model, t) ==
  IF best_model # mgr.current_model
    THEN [mgr EXCEPT !.current_model = best_model, !.last_switch = t]
    ELSE mgr

\* model_manager_set_model: the index of the first registry entry of that name, 0 if none.
find_model(registry, model_name) ==
  IF \E i \in 1..Len(registry) : registry[i].name = model_name
    THEN CHOOSE i \in 1..Len(registry) :
           /\ registry[i].name = model_name
           /\ \A j \in 1..(i - 1) : registry[j].name # model_name
    ELSE 0

\* model_manager_set_model: the return value.
set_model_rc(registry, model_name) ==
  IF find_model(registry, model_name) = 0
    THEN -2
    ELSE IF registry[find_model(registry, model_name)].enabled THEN 0 ELSE -1

\* model_manager_set_model: the manager after the call.
model_manager_set_model(mgr, registry, model_name, t) ==
  IF set_model_rc(registry, model_name) = 0
    THEN [mgr EXCEPT !.current_model = find_model(registry, model_name), !.last_switch = t]
    ELSE mgr

\* model_manager_init, lines 187-199.
model_manager_init ==
  [current_model |-> 1, auto_switch_enabled |-> TRUE, learning_enabled |-> TRUE,
   last_switch |-> 0, switch_cooldown |-> SWITCH_COOLDOWN]

\* The mutant of mutex_held for a lock that excludes nobody.
mutex_never_held(mutex) == FALSE

\* pthread_mutex_lock: whether the caller has to wait (0 is a free mutex).
mutex_held(mutex) == mutex # 0

\* model_manager_update_stats, lines 368-369: the registry entry that the loop stops at, 0
\* when no name matches.
stats_entry(registry, model_name) == find_model(registry, model_name)

\* model_manager_update_stats, lines 372-376, the read of the ++: the counter's value.
stats_counter(model, success) ==
  IF success THEN model.success_count ELSE model.failure_count

\* model_manager_update_stats, lines 372-391, from the write of the ++ on: the entry after
\* it.  seen is the counter as the ++ read it; times are in milliseconds and the scores in
\* thousandths, both rounded down.
update_stats_entry(model, success, response_time, seen) ==
  LET counted == IF success THEN [model EXCEPT !.success_count = seen + 1]
                            ELSE [model EXCEPT !.failure_count = seen + 1]
      total_requests == counted.success_count + counted.failure_count
      timed == [counted EXCEPT !.avg_response_time =
                  IF total_requests = 1
                    THEN response_time
                    ELSE (@ * (total_requests - 1) + response_time) \div total_requests]
  IN  IF total_requests >= 10
        THEN [timed EXCEPT !.performance_score =
                (((timed.success_count * 1000) \div total_requests) * 8) \div 10
                + ((1000 - timed.avg_response_time \div 30) * 2) \div 10]
        ELSE timed

\* model_manager_update_stats, lines 366-396, as one step: the registry after the call.
model_manager_update_stats(registry, model_name, success, response_time) ==
  IF stats_entry(registry, model_name) = 0
    THEN registry
    ELSE [registry EXCEPT ![stats_entry(registry, model_name)] =
            update_stats_entry(@, success, response_time, stats_counter(@, success))]

\* One element of the "models" array of models.json.
ModelsEntry(name, enabled, has_priority, priority) ==
  [name |-> name, enabled |-> enabled, has_priority |-> has_priority, priority |-> priority]

\* What fopen and json_object_from_file find at config_file.
ModelsFile(kind, models) == [kind |-> kind, models |-> models]

\* model_manager_load_config, lines 493-502: one element applied to the first entry of
\* its name.
apply_models_entry(registry, entry) ==
  IF find_model(registry, entry.name) = 0
    THEN registry
    ELSE [registry EXCEPT ![find_model(registry, entry.name)] =
            [@ EXCEPT !.enabled = entry.enabled,
                      !.priority = IF entry.has_priority THEN entry.priority ELSE @]]

RECURSIVE apply_models(_, _, _)
\* model_manager_load_config, lines 483-504: the loop over the first MAX_MODELS elements.
apply_models(registry, models, i) ==
  IF i > Len(models) \/ i > MAX_MODELS
    THEN registry
    ELSE apply_models(apply_models_entry(registry, models[i]), models, i + 1)

\* model_manager_load_config.
model_manager_load_config(registry, file) ==
  IF file.kind = "missing"
    THEN [rc |-> 0, registry |-> registry]
    ELSE IF file.kind = "invalid"
           THEN [rc |-> -1, registry |-> registry]
           ELSE [rc |-> 0, registry |-> apply_models(registry, file.models, 1)]

(***************************************************************************)
(* json-c: what json_object_to_json_string writes, counted in bytes.       *)
(***************************************************************************)
\* json_escape_str: the characters written as a two-byte escape.
TwoByteEscapes == {"\n", "\r", "\t", "\"", "\\", "/"}

\* The bytes of a text inside a JSON string.
EscLen(text) ==
  Len(text) + Cardinality({i \in 1..Len(text) : text[i] \in TwoByteEscapes})

RECURSIVE DecText(_)
\* The "%d" rendering of a number that is not negative.
DecText(n) ==
  IF n < 10
    THEN <<(<<"0","1","2","3","4","5","6","7","8","9">>)[n + 1]>>
    ELSE DecText(n \div 10) \o DecText(n % 10)

\* The "%d" rendering of an int, in bytes.
DecLen(n) == IF n < 0 THEN 1 + Len(DecText(-n)) ELSE Len(DecText(n))

\* json_object_new_string, json_object_new_int, json_object_new_boolean and a parsed object
\* under a key: the key, the value and the bytes of the value as serialised.
JsonString(name, text) ==
  [name |-> name, kind |-> "string", text |-> text, num |-> 0, bytes |-> 2 + EscLen(text)]

JsonInt(name, n) ==
  [name |-> name, kind |-> "int", text |-> <<>>, num |-> n, bytes |-> DecLen(n)]

JsonBoolean(name, b) ==
  [name |-> name, kind |-> "boolean", text |-> <<>>, num |-> IF b THEN 1 ELSE 0,
   bytes |-> IF b THEN 4 ELSE 5]

JsonObject(name, bytes) ==
  [name |-> name, kind |-> "object", text |-> <<>>, num |-> 0, bytes |-> bytes]

\* A string made of the bytes found in memory: the text that can be told, and its bytes.
JsonRawString(name, text, bytes) ==
  [name |-> name, kind |-> "string", text |-> text, num |-> 0, bytes |-> bytes]

RECURSIVE SumBytes(_, _)
\* The bytes of the members from the i-th on, each with its quoted key and ": ".
SumBytes(fields, i) ==
  IF i > Len(fields)
    THEN 0
    ELSE Len(fields[i].name) + 4 + fields[i].bytes + SumBytes(fields, i + 1)

\* json_object_to_json_string (JSON_C_TO_STRING_SPACED): { "k": v, "k": v } or { }.
JsonSize(fields) ==
  IF Len(fields) = 0 THEN 3 ELSE 2 + SumBytes(fields, 1) + 2 * (Len(fields) - 1) + 2

RECURSIVE SumEsc(_, _)
\* The bytes of the quoted texts from the i-th on.
SumEsc(texts, i) ==
  IF i > Len(texts) THEN 0 ELSE 2 + EscLen(texts[i]) + SumEsc(texts, i + 1)

\* A JSON array of strings: [ "a", "b" ] or [ ].
JsonArraySize(texts) ==
  IF Len(texts) = 0 THEN 3 ELSE 2 + SumEsc(texts, 1) + 2 * (Len(texts) - 1) + 2

\* context_manager.c:204-232, the keys of ai_context_to_json in the order they are added.
ContextKeys ==
  <<"current_directory", "username", "shell", "hostname", "git_branch", "git_status",
    "file_listing", "system_info", "process_id", "user_id", "last_update",
    "recent_commands", "env_vars", "running_processes", "open_ports", "disk_usage">>

RECURSIVE SumKeys(_, _)
\* The bytes of the quoted keys from the i-th on, each with its ": ".
SumKeys(keys, i) == IF i > Len(keys) THEN 0 ELSE Len(keys[i]) + 4 + SumKeys(keys, i + 1)

\* ai_context_to_json: the bytes of the object (process id and user id are one digit each).
ai_context_to_json(c) ==
  2 + SumKeys(ContextKeys, 1) + 2 * (Len(ContextKeys) - 1) + 2
    + c.snapshot_len + 2 + DecLen(c.last_update) + JsonArraySize(c.recent_commands)

(***************************************************************************)
(* ollama_client.c                                                         *)
(***************************************************************************)
\* send_ollama_request, line 250, on a backoff that stays as it is.
backoff_same(backoff) == backoff

\* send_ollama_request, lines 250-251: backoff *= 2; if (backoff > 16) backoff = 16.
backoff_next(backoff) == IF backoff * 2 > BACKOFF_CAP THEN BACKOFF_CAP ELSE backoff * 2

\* send_ollama_request, lines 261-293.  backend is what the HTTP exchange came to:
\* "curl_fail", "bad_json", "no_response_field" or "reply" with the reply's text.
send_ollama_request(backend, response_size) ==
  CASE backend.kind \in {"curl_fail", "bad_json"} -> [rc |-> -1, text |-> <<>>]
    [] backend.kind = "no_response_field" ->
         [rc |-> 0, text |-> strncpy(TextNoResponse, response_size - 1)]
    [] OTHER ->
         [rc |-> 0,
          text |-> StripTrailingNewlines(strncpy(backend.text, response_size - 1))]

\* ollama_interpret_command; the kind "lock_timeout" is the timed lock failing.
ollama_interpret_command(backend, command_size) ==
  IF backend.kind = "lock_timeout"
    THEN [rc |-> -1, text |-> <<>>]
    ELSE LET result == send_ollama_request(backend, command_size)
         IN  IF result.rc = 0 /\ strstr(result.text, TextUnsafe)
               THEN [rc |-> -2, text |-> result.text]
               ELSE IF result.rc = 0 /\ strstr(result.text, TextUnclear)
                      THEN [rc |-> -3, text |-> result.text]
                      ELSE result

RECURSIVE JoinNames(_, _)
\* ollama_list_models, lines 395-404: the names joined by ", ".
JoinNames(names, i) ==
  IF i > Len(names)
    THEN <<>>
    ELSE names[i] \o (IF i < Len(names) THEN <<",", " ">> ELSE <<>>)
                  \o JoinNames(names, i + 1)

\* ollama_list_models: what models_list holds after the call.  The buffer is written only
\* when the reply is an object with a "models" array; otherwise it keeps what was in it.
ollama_list_models(listing, memory, list_size) ==
  IF listing.kind = "listed"
    THEN [text |-> strncpy(JoinNames(listing.names, 1), list_size - 1),
          bytes |-> 2 + EscLen(strncpy(JoinNames(listing.names, 1), list_size - 1))]
    ELSE memory

\* ollama_set_model: the return value.
ollama_set_model(lock_ok) == IF lock_ok THEN 0 ELSE -1

(***************************************************************************)
(* ai_daemon.c                                                             *)
(***************************************************************************)
\* is_safe_command: the function returns 1 at line 89, ahead of the disabled pattern checks.
is_safe_command(command) == TRUE

\* ai_daemon.c:95-140, the checks inside the disabled block: whether a command matches
\* one of the destructive patterns.
matches_dangerous_pattern(command) ==
  \/ \E i \in 1..Len(dangerous_patterns) : strstr(command, dangerous_patterns[i])
  \/ /\ strstr(command, <<"s","u","d","o"," ">>)
     /\ \E i \in 1..Len(sudo_dangerous) : strstr(command, sudo_dangerous[i])

\* fgets(buffer, 1024, fp): the bytes one call takes from what is left of the output.
fgets(rest) ==
  LET limit == Min(Len(rest), FGETS_SIZE - 1)
  IN  IF \E i \in 1..limit : rest[i] = "\n"
        THEN SubSeq(rest, 1, CHOOSE i \in 1..limit :
                                /\ rest[i] = "\n"
                                /\ \A j \in 1..(i - 1) : rest[j] # "\n")
        ELSE SubSeq(rest, 1, limit)

RECURSIVE read_output(_, _, _)
\* execute_command_safely, lines 169-181: the loop that collects the process output.
read_output(rest, output, output_size) ==
  IF Len(rest) = 0 \/ ~(Len(output) < output_size - 1)
    THEN output
    ELSE IF Len(output) + Len(fgets(rest)) < output_size - 1
           THEN read_output(SubSeq(rest, Len(fgets(rest)) + 1, Len(rest)),
                            output \o fgets(rest), output_size)
           ELSE output

\* The mutant of execute_command_safely that runs the command in confirmation mode too.
execute_command_unconfirmed(context, command, confirmation_required, run) ==
  LET added == ai_context_add_command(context, command).ctx
      output == read_output(run.out, <<>>, EXEC_OUTPUT_SIZE)
  IN  IF ~run.popen_ok
        THEN [context |-> added, output |-> MsgExecFailed, rc |-> -1, ran |-> <<>>]
        ELSE [context |-> added,
              output |-> IF Len(output) = 0
                           THEN MsgExecutedPrefix \o DecText(run.code) \o <<")">>
                           ELSE output,
              rc |-> run.code, ran |-> <<command>>]

\* execute_command_safely.  run is what popen and the process come to: whether popen
\* succeeds, the process's standard output and its exit status.  ran lists the commands
\* handed to a shell.
execute_command_safely(context, command, confirmation_required, run) ==
  LET added == ai_context_add_command(context, command).ctx
      output == read_output(run.out, <<>>, EXEC_OUTPUT_SIZE)
  IN  IF confirmation_required
        THEN [context |-> added,
              output |-> strncpy(TextConfirmRequired \o command, EXEC_OUTPUT_SIZE - 1),
              rc |-> 1, ran |-> <<>>]
        ELSE IF ~run.popen_ok
               THEN [context |-> added, output |-> MsgExecFailed, rc |-> -1, ran |-> <<>>]
               ELSE [context |-> added,
                     output |-> IF Len(output) = 0
                                  THEN MsgExecutedPrefix \o DecText(run.code) \o <<")">>
                                  ELSE output,
                     rc |-> run.code, ran |-> <<command>>]

\* handle_client_request, lines 225-254: the "interpret" action.
handle_interpret(context, daemon, command, env) ==
  LET result == ollama_interpret_command(env.backend, MAX_COMMAND_LEN)
      exec == execute_command_safely(context, result.text,
                                     daemon.confirmation_required, env.run)
  IN  CASE result.rc = 0 /\ ~daemon.confirmation_required ->
             [fields |-> <<JsonString("interpreted_command", result.text),
                           JsonString("status", StatusSuccess),
                           JsonString("execution_result", exec.output),
                           JsonInt("exit_code", exec.rc)>>,
              context |-> exec.context, daemon |-> daemon, ran |-> exec.ran]
        [] result.rc = 0 /\ daemon.confirmation_required ->
             [fields |-> <<JsonString("interpreted_command", result.text),
                           JsonString("status", StatusSuccess)>>,
              context |-> context, daemon |-> daemon, ran |-> <<>>]
        [] result.rc = -2 ->
             [fields |-> <<JsonString("status", StatusUnsafe),
                           JsonString("message", MsgUnsafe)>>,
              context |-> context, daemon |-> daemon, ran |-> <<>>]
        [] result.rc = -3 ->
             [fields |-> <<JsonString("status", StatusUnclear),
                           JsonString("message", MsgUnclear)>>,
              context |-> context, daemon |-> daemon, ran |-> <<>>]
        [] OTHER ->
             [fields |-> <<JsonString("status", StatusError),
                           JsonString("message", MsgInterpretFailed)>>,
              context |-> context, daemon |-> daemon, ran |-> <<>>]

\* handle_client_request, lines 256-263: the "execute" action.
handle_execute(context, daemon, command, env) ==
  LET exec == execute_command_safely(context, command,
                                     daemon.confirmation_required, env.run)
  IN  [fields |-> <<JsonString("execution_result", exec.output),
                    JsonInt("exit_code", exec.rc),
                    JsonString("status", IF exec.rc = 0 THEN StatusSuccess
                                                        ELSE StatusError)>>,
       context |-> exec.context, daemon |-> daemon, ran |-> exec.ran]

\* handle_client_request, lines 265-276: the "status" action.  env.memory is what the
\* bytes of the uninitialised models_list read as.
handle_status(context, daemon, env) ==
  LET models_list == ollama_list_models(env.listing, env.memory, MODELS_LIST_SIZE)
  IN  [fields |-> <<JsonString("daemon_status", TextRunning),
                    JsonString("ollama_status", IF env.status_ok THEN TextRunning
                                                                 ELSE TextNotAvailable),
                    JsonString("current_model", daemon.current_model),
                    JsonRawString("available_models", models_list.text, models_list.bytes),
                    JsonBoolean("safety_mode", daemon.safety_mode),
                    JsonBoolean("confirmation_required", daemon.confirmation_required)>>,
       context |-> context, daemon |-> daemon, ran |-> <<>>]

\* handle_client_request, lines 278-288: the "set_model" action with a model.
handle_set_model(context, daemon, model, env) ==
  IF ollama_set_model(env.lock_ok) = 0
    THEN [fields |-> <<JsonString("status", StatusSuccess),
                       JsonString("message", MsgModelChanged)>>,
          context |-> context,
          daemon |-> [daemon EXCEPT
                        !.current_model = strncpy(model, CURRENT_MODEL_SIZE - 1)],
          ran |-> <<>>]
    ELSE [fields |-> <<JsonString("status", StatusError),
                       JsonString("message", MsgModelFailed)>>,
          context |-> context, daemon |-> daemon, ran |-> <<>>]

\* handle_client_request, lines 290-298: the "get_context" action.
handle_get_context(context, daemon) ==
  [fields |-> <<JsonObject("context", ai_context_to_json(context)),
                JsonString("status", StatusSuccess)>>,
   context |-> context, daemon |-> daemon, ran |-> <<>>]

\* The mutant of handle_classify that looks for the chat words first.
handle_classify_chat_words_first(context, daemon, command) ==
  [fields |-> <<JsonString("classification",
                           IF \E i \in 1..Len(chat_words) : strstr(command, chat_words[i])
                             THEN TextChat
                             ELSE IF \E i \in 1..Len(command_actions) :
                                        strstr(command, command_actions[i])
                                    THEN TextCommand ELSE TextChat),
                JsonString("status", StatusSuccess)>>,
   context |-> context, daemon |-> daemon, ran |-> <<>>]

\* handle_client_request, lines 300-357: the "classify" action.
handle_classify(context, daemon, command) ==
  [fields |-> <<JsonString("classification",
                           IF \E i \in 1..Len(command_actions) :
                                 strstr(command, command_actions[i])
                             THEN TextCommand ELSE TextChat),
                JsonString("status", StatusSuccess)>>,
   context |-> context, daemon |-> daemon, ran |-> <<>>]

\* handle_client_request, lines 359-375: the "chat" action.
handle_chat(context, daemon, command, env) ==
  LET result == ollama_interpret_command(env.backend, CHAT_RESPONSE_SIZE)
  IN  IF result.rc = 0
        THEN [fields |-> <<JsonString("chat_response", result.text),
                           JsonString("status", StatusSuccess)>>,
              context |-> context, daemon |-> daemon, ran |-> <<>>]
        ELSE [fields |-> <<JsonString("status", StatusError),
                           JsonString("message", MsgChatFailed)>>,
              context |-> context, daemon |-> daemon, ran |-> <<>>]

\* The mutant of handle_unknown that leaves the status out.
handle_unknown_silent(context, daemon) ==
  [fields |-> <<JsonString("message", MsgUnknownAction)>>,
   context |-> context, daemon |-> daemon, ran |-> <<>>]

\* handle_client_request, lines 377-380: any other action.
handle_unknown(context, daemon) ==
  [fields |-> <<JsonString("status", StatusError),
                JsonString("message", MsgUnknownAction)>>,
   context |-> context, daemon |-> daemon, ran |-> <<>>]

\* The mutant of handle_client_request that refreshes the context before it parses.
handle_client_request_refresh_first(context, daemon, request, env, t) ==
  [rc |-> IF request.valid THEN 0 ELSE -1,
   fields |-> IF request.valid
                THEN handle_unknown(context, daemon).fields
                ELSE <<JsonString("error", MsgInvalidJson)>>,
   context |-> IF ai_context_needs_refresh(context, t)
                 THEN ai_context_update(context, t)
                 ELSE context,
   daemon |-> daemon, ran |-> <<>>]

\* handle_client_request: the calls it makes into the other modules, in their order.
handle_client_request_calls(context, daemon, request, env, t) ==
  IF ~request.valid
    THEN <<>>
    ELSE LET action == IF request.has_action THEN request.action ELSE "interpret"
             interpreted == ollama_interpret_command(env.backend, MAX_COMMAND_LEN)
         IN  <<"ai_context_needs_refresh">>
             \o (IF ai_context_needs_refresh(context, t)
                   THEN <<"ai_context_update">> ELSE <<>>)
             \o (CASE action = "interpret" ->
                        <<"ai_context_to_summary", "ollama_interpret_command">>
                        \o (IF interpreted.rc = 0 /\ ~daemon.confirmation_required
                              THEN <<"execute_command_safely">> ELSE <<>>)
                   [] action = "execute" -> <<"execute_command_safely">>
                   [] action = "status" -> <<"ollama_check_status", "ollama_list_models">>
                   [] action = "set_model" /\ request.has_model -> <<"ollama_set_model">>
                   [] action = "get_context" -> <<"ai_context_to_json">>
                   [] action = "chat" ->
                        <<"ai_context_to_summary", "ollama_interpret_command">>
                   [] OTHER -> <<>>)

\* handle_client_request.  A request is what json_tokener_parse makes of the received
\* bytes: valid or not, and the values under "action", "command" and "model" if present.
handle_client_request(context, daemon, request, env, t) ==
  IF ~request.valid
    THEN [rc |-> -1, fields |-> <<JsonString("error", MsgInvalidJson)>>,
          context |-> context, daemon |-> daemon, ran |-> <<>>]
    ELSE LET action == IF request.has_action THEN request.action ELSE "interpret"
             command == IF request.has_command THEN request.command ELSE <<>>
             refreshed == IF ai_context_needs_refresh(context, t)
                            THEN ai_context_update(context, t)
                            ELSE context
             handled ==
               CASE action = "interpret" -> handle_interpret(refreshed, daemon, command, env)
                 [] action = "execute" -> handle_execute(refreshed, daemon, command, env)
                 [] action = "status" -> handle_status(refreshed, daemon, env)
                 [] action = "set_model" /\ request.has_model ->
                      handle_set_model(refreshed, daemon, request.model, env)
                 [] action = "get_context" -> handle_get_context(refreshed, daemon)
                 [] action = "classify" -> handle_classify(refreshed, daemon, command)
                 [] action = "chat" -> handle_chat(refreshed, daemon, command, env)
                 [] OTHER -> handle_unknown(refreshed, daemon)
         IN  [rc |-> 0, fields |-> handled.fields, context |-> handled.context,
              daemon |-> handled.daemon, ran |-> handled.ran]

\* client_thread, lines 415-420, with handle_client_request's copy into the response
\* buffer (lines 382-384): the message that send() is given.  fields are the members of
\* the object that was serialised, bytes the length sent, and cut whether the copy stopped
\* short of the object's end.
client_thread_send(handled, response_size) ==
  IF handled.rc = 0
    THEN [fields |-> handled.fields,
          bytes |-> Min(JsonSize(handled.fields), response_size - 1),
          cut |-> JsonSize(handled.fields) > response_size - 1]
    ELSE [fields |-> <<JsonString("error", MsgFailedProcess)>>,
          bytes |-> JsonSize(<<JsonString("error", MsgFailedProcess)>>) - 2,
          cut |-> FALSE]

\* The mutant of scan_slot that takes the last slot of a full table.
scan_slot_take_last(table, i) ==
  IF ~table[i].active \/ i = Len(table) THEN "take" ELSE "next"

\* accept_client_connection, lines 452-453 and 477-483: what the scan does at index i
\* (one past the table means that the loop has ended).
scan_slot(table, i) ==
  IF i > Len(table)
    THEN "reject"
    ELSE IF ~table[i].active THEN "take" ELSE "next"

\* g_daemon after load_config with the defaults of lines 491-493.
default_daemon ==
  [running |-> TRUE, current_model |-> ModelCodellama, safety_mode |-> TRUE,
   confirmation_required |-> TRUE]

\* g_daemon as the zeroed global holds it, line 57.
zero_daemon ==
  [running |-> FALSE, current_model |-> <<>>, safety_mode |-> FALSE,
   confirmation_required |-> FALSE]

\* What is found at AI_CONFIG_FILE: kind is "missing" (fopen fails), "empty" (fread gives
\* no byte), "invalid" (no JSON) or "loaded", with the keys that the object holds.
ConfigFile(kind) ==
  [kind |-> kind, has_model |-> FALSE, model |-> <<>>, has_safety_mode |-> FALSE,
   safety_mode |-> FALSE, has_confirmation_required |-> FALSE,
   confirmation_required |-> FALSE]

\* load_config, lines 487-534.
load_config(daemon, config) ==
  CASE config.kind = "missing" ->
         [rc |-> 0,
          daemon |-> [daemon EXCEPT !.current_model = ModelCodellama,
                                    !.safety_mode = TRUE,
                                    !.confirmation_required = TRUE]]
    [] config.kind \in {"empty", "invalid"} -> [rc |-> -1, daemon |-> daemon]
    [] OTHER ->
         [rc |-> 0,
          daemon |->
            [daemon EXCEPT
               !.current_model = IF config.has_model
                                   THEN strncpy(config.model, CURRENT_MODEL_SIZE - 1)
                                   ELSE @,
               !.safety_mode = IF config.has_safety_mode THEN config.safety_mode ELSE @,
               !.confirmation_required = IF config.has_confirmation_required
                                           THEN config.confirmation_required
                                           ELSE @]]

\* init_daemon, lines 543-607, when the socket is set up: load_config's result is logged
\* and startup goes on.  config_file records what load_config found.
init_daemon(config) ==
  LET loaded == load_config(zero_daemon, config).daemon
  IN  [running |-> TRUE, current_model |-> loaded.current_model,
       safety_mode |-> loaded.safety_mode,
       confirmation_required |-> loaded.confirmation_required,
       config_file |-> config.kind]

\* A slot of g_daemon.clients as the zeroed global holds it; pc is the place of the
\* slot's worker thread.
NoClient ==
  [active |-> FALSE, socket_fd |-> 0, pc |-> "none", context |-> ai_context_create(0, 0)]

(***************************************************************************)
(* SpecContext: calls of ai_context_add_command on one context.            *)
(***************************************************************************)
\* The static buffer before the first call: zero-filled, written for no session.
NoSummary == [of |-> 0, as_of |-> 0, state |-> "empty"]

\* A worker that is in no ollama_client call.
NoBackendCall ==
  [pc |-> "idle", call |-> "none", attempt |-> 0, backoff |-> 0, res |-> "none",
   performs |-> 0, successes |-> 0, slept |-> <<>>, rc |-> 0, fields |-> <<>>, calls |-> 0]

CtxIdle ==
  /\ g_client = [mutex |-> 0, users |-> {}]
  /\ oc_threads = [t \in 1..NumWorkers |-> NoBackendCall]
  /\ ctx = ai_context_create(StartTime, SmallSnapshot)
  /\ inserted = <<>>
  /\ summary = NoSummary
  /\ sum_threads = [t \in 1..MAX_CLIENTS |->
                      [pc |-> "recv", context |-> ai_context_create(StartTime, SmallSnapshot),
                       read |-> NoSummary, calls |-> 0]]
\* No learning_system_suggest call was made yet.
NoSuggest ==
  [calls |-> 0, natural |-> <<>>, size |-> 0, rc |-> 0, suggested |-> <<>>,
   db |-> <<>>, given |-> <<>>]

\* No worker is inside learning_system_add_feedback, and none has saved.
NoEntry ==
  [natural_command |-> <<>>, interpreted_command |-> <<>>, accepted |-> 0,
   model_used |-> <<>>, timestamp |-> 0]
RecIdle ==
  /\ fb_threads = [t \in 1..NumWorkers |-> [pc |-> "idle", entry |-> NoEntry]]
  /\ fb_written = [by |-> 0, entry |-> NoEntry, entries |-> <<>>, db |-> <<>>, ok |-> FALSE]

FbIdle ==
  /\ feedback_db = <<>>
  /\ feedback_file = NoFile
  /\ recorded = <<>>
  /\ fb_base = 0
  /\ fb_calls = 0
  /\ fb_suggest = NoSuggest
  /\ RecIdle

MMThreads == 1..NumWorkers
NoCall ==
  [op |-> "none", thread |-> 0, command |-> <<>>, at |-> 0, rc |-> 0,
   ls_gate |-> 0, ls_before |-> 0, ls_after |-> 0, cur_before |-> 0, cur_after |-> 0]
NoSwitch == [by |-> "none", at |-> 0, model |-> 0]
\* The names that model_manager_update_stats is called with.
StatsNames == {ModelMistral, ModelUnknown}
NoStatsCalls == [name \in StatsNames |-> 0]
\* A thread that is not in model_manager_update_stats.
NoStatsCall ==
  [pc |-> "idle", model_name |-> <<>>, success |-> FALSE, response_time |-> 0, seen |-> 0,
   before |-> <<>>]
MMIdle ==
  /\ g_model_manager = model_manager_init
  /\ model_registry = InitialRegistry
  /\ mm_threads = [t \in MMThreads |-> [pc |-> "idle", command |-> <<>>, now |-> 0,
                                           task_type |-> "", best_model |-> 0,
                                           ls_seen |-> 0]]
  /\ mm_last = NoCall
  /\ mm_switch = NoSwitch
  /\ stats_mutex = 0
  /\ stats_threads = [t \in MMThreads |-> NoStatsCall]
  /\ stats_calls = NoStatsCalls

MaxConns == MAX_CLIENTS + ExtraConns
NoRequest ==
  [valid |-> FALSE, has_action |-> FALSE, action |-> "", has_command |-> FALSE,
   command |-> <<>>, has_model |-> FALSE, model |-> <<>>]
NoSent ==
  [handled |-> FALSE, slot |-> 0, request |-> NoRequest,
   backend |-> [kind |-> "none", text |-> <<>>], run_code |-> 0,
   fields |-> <<>>, bytes |-> 0, cut |-> FALSE, ran |-> <<>>, confirm |-> FALSE,
   follow_up |-> FALSE, history_before |-> <<>>, history_after |-> <<>>,
   at |-> 0, calls |-> <<>>, context_before |-> ai_context_create(0, 0),
   context_after |-> ai_context_create(0, 0)]
DaemonIdle ==
  /\ g_daemon = default_daemon
  /\ clients = [i \in 1..MAX_CLIENTS |-> NoClient]
  /\ acceptor = [pc |-> "accept", i |-> 0, fd |-> 0]
  /\ conns = [fd \in 1..MaxConns |-> "none"]
  /\ closes = [fd \in 1..MaxConns |-> 0]
  /\ popen_log = {}
  /\ sent = NoSent
  /\ offered = {}
  /\ nreq = 0

CtxCommands == {CmdLs, CmdGitStatus, LongText, NULL}

InitContext == now = StartTime /\ CtxIdle /\ FbIdle /\ MMIdle /\ DaemonIdle

AddCommand(command) ==
  /\ Len(inserted) < MaxAdds
  /\ LET r == ai_context_add_command(ctx, command)
     IN  /\ ctx' = r.ctx
         /\ inserted' = IF r.rc = 0 THEN Append(inserted, command) ELSE inserted
  /\ UNCHANGED <<now, sumVars, ocVars, fbVars, mmVars, dVars>>

NextContext == \E command \in CtxCommands : AddCommand(command)

SpecContext == InitContext /\ [][NextContext]_vars

(***************************************************************************)
(* SpecFeedback: the feedback store, loaded and recorded into.             *)
(***************************************************************************)
TextListFiles == <<"L","i","s","t"," ","F","i","l","e","s">>
TextListFilesLower == <<"l","i","s","t"," ","f","i","l","e","s">>
CmdLsAll == <<"l","s"," ","-","a">>

\* The arguments of one learning_system_add_feedback call.
FbInputs ==
  {[natural |-> TextListFiles, interpreted |-> CmdLs, accepted |-> 1, model |-> ModelCodellama],
   [natural |-> TextHello, interpreted |-> CmdRmRoot, accepted |-> 0, model |-> ModelPhi3],
   [natural |-> LongText, interpreted |-> LongText, accepted |-> 1, model |-> LongText]}

\* A feedback file left by an earlier run, one entry longer than the store.
OldFile ==
  [exists |-> TRUE,
   entries |-> [i \in 1..(MAX_FEEDBACK_ENTRIES + 1) |->
                  [natural_command |-> TextHello, interpreted_command |-> CmdLs,
                   accepted |-> 1, model_used |-> ModelLlama, timestamp |-> i]]]

InitFeedback ==
  /\ now = StartTime
  /\ CtxIdle
  /\ MMIdle
  /\ DaemonIdle
  /\ feedback_db = <<>>
  /\ feedback_file \in {NoFile, OldFile}
  /\ recorded = <<>>
  /\ fb_base = 0
  /\ fb_calls = 0
  /\ fb_suggest = NoSuggest
  /\ RecIdle

\* learning_system_init.
FbLoad ==
  /\ feedback_db' = learning_system_load_feedback(feedback_file)
  /\ recorded' = feedback_db'
  /\ fb_base' = Len(feedback_db')
  /\ UNCHANGED <<now, ctxVars, mmVars, dVars, feedback_file, fb_calls, fb_suggest, recVars>>

\* learning_system_add_feedback, with the save of line 125.
FbRecord(in, write_ok) ==
  /\ fb_calls < MaxRecords
  /\ fb_calls' = fb_calls + 1
  /\ feedback_db' = learning_system_add_feedback(feedback_db, in.natural, in.interpreted,
                                                 in.accepted, in.model, now)
  /\ feedback_file' = learning_system_save_feedback(feedback_db', feedback_file, write_ok)
  /\ recorded' = Append(recorded,
                        [natural_command |-> in.natural, interpreted_command |-> in.interpreted,
                         accepted |-> in.accepted, model_used |-> in.model, timestamp |-> now])
  /\ UNCHANGED <<now, ctxVars, mmVars, dVars, fb_base, fb_suggest, recVars>>

NextFeedback ==
  \/ FbLoad
  \/ \E in \in FbInputs, write_ok \in BOOLEAN : FbRecord(in, write_ok)

SpecFeedback == InitFeedback /\ [][NextFeedback]_vars

(***************************************************************************)
(* SpecSuggest: the feedback store recorded into and asked for a           *)
(* suggestion.                                                             *)
(***************************************************************************)
\* The recorded entries, with the same text in other capitals accepted for another
\* command and rejected; the queries; the sizes of the caller's buffer.
SuggestInputs ==
  FbInputs \cup
  {[natural |-> TextListFilesLower, interpreted |-> CmdLsAll, accepted |-> 1,
    model |-> ModelPhi3],
   [natural |-> TextListFiles, interpreted |-> CmdRmRoot, accepted |-> 0,
    model |-> ModelPhi3]}
FbQueries == {TextListFiles, TextHello, LongText}
SuggestSizes == {MAX_COMMAND_LEN, ShortBuffer}

\* learning_system_suggest.  given is what the entries of the store were recorded with.
FbSuggest(natural, size) ==
  /\ fb_suggest.calls < MaxSuggests
  /\ LET r == learning_system_suggest(feedback_db, natural, size)
     IN  fb_suggest' = [calls |-> fb_suggest.calls + 1, natural |-> natural, size |-> size,
                        rc |-> r.rc, suggested |-> r.suggested, db |-> feedback_db,
                        given |-> SubSeq(recorded, Len(recorded) - Len(feedback_db) + 1,
                                         Len(recorded))]
  /\ UNCHANGED <<now, ctxVars, mmVars, dVars, feedback_db, feedback_file, recorded, fb_base,
                 fb_calls, recVars>>

NextSuggest ==
  \/ FbLoad
  \/ \E in \in SuggestInputs : FbRecord(in, TRUE)
  \/ \E natural \in FbQueries, size \in SuggestSizes : FbSuggest(natural, size)

SpecSuggest == InitFeedback /\ [][NextSuggest]_vars

(***************************************************************************)
(* SpecRecord: learning_system_add_feedback called by concurrent workers.  *)
(***************************************************************************)
\* learning_system_add_feedback, lines 111-124: the entry appended between the lock and
\* the unlock of feedback_mutex.
RecAppend(t, in) ==
  /\ fb_threads[t].pc = "idle"
  /\ fb_calls < MaxRecords
  /\ fb_calls' = fb_calls + 1
  /\ feedback_db' = learning_system_add_feedback(feedback_db, in.natural, in.interpreted,
                                                 in.accepted, in.model, now)
  /\ recorded' = Append(recorded,
                        [natural_command |-> in.natural, interpreted_command |-> in.interpreted,
                         accepted |-> in.accepted, model_used |-> in.model, timestamp |-> now])
  /\ fb_threads' = [fb_threads EXCEPT ![t] =
                      [pc |-> "save", entry |-> feedback_db'[Len(feedback_db')]]]
  /\ UNCHANGED <<now, ctxVars, mmVars, dVars, feedback_file, fb_base, fb_suggest, fb_written>>

\* Line 125 with learning_system_save_feedback, lines 77-106: the lock taken again, the
\* store as it is by then written to the file, the unlock.
RecSave(t, write_ok) ==
  /\ fb_threads[t].pc = "save"
  /\ feedback_file' = learning_system_save_feedback(feedback_db, feedback_file, write_ok)
  /\ fb_written' = [by |-> t, entry |-> fb_threads[t].entry, entries |-> feedback_file'.entries,
                    db |-> feedback_db, ok |-> write_ok]
  /\ fb_threads' = [fb_threads EXCEPT ![t] = [pc |-> "idle", entry |-> NoEntry]]
  /\ UNCHANGED <<now, ctxVars, mmVars, dVars, feedback_db, recorded, fb_base, fb_calls,
                 fb_suggest>>

NextRecord ==
  \/ \E t \in 1..NumWorkers, in \in FbInputs : RecAppend(t, in)
  \/ \E t \in 1..NumWorkers, write_ok \in BOOLEAN : RecSave(t, write_ok)

SpecRecord == InitFeedback /\ [][NextRecord]_vars

(***************************************************************************)
(* SpecModel: the model manager, called by concurrent workers.             *)
(***************************************************************************)
\* The dev_ops pattern text itself: the one kind of command a pattern row is a substring of.
CmdDevPattern == task_patterns[9][2]
MMCommands == {CmdLs, CmdDevPattern, CmdGitStatus, CmdPing}
MMModelNames == {ModelPhi3, ModelMistral, ModelUnknown}

InitModel == now = StartTime /\ CtxIdle /\ FbIdle /\ MMIdle /\ DaemonIdle

\* model_manager_select_model up to line 337: the gate, then the unlocked selection.
MMSelectBegin(t, command) ==
  /\ mm_threads[t].pc = "idle"
  /\ IF select_gate(g_model_manager, now)
       THEN /\ mm_threads' =
                 [mm_threads EXCEPT ![t] =
                    [pc |-> "commit", command |-> command, now |-> now,
                     task_type |-> classify_task_type(command),
                     best_model |-> select_best_model(model_registry,
                                                      classify_task_type(command)),
                     ls_seen |-> g_model_manager.last_switch]]
            /\ UNCHANGED mm_last
       ELSE /\ mm_last' =
                 [op |-> "select", thread |-> t, command |-> command, at |-> now, rc |-> 0,
                  ls_gate |-> g_model_manager.last_switch,
                  ls_before |-> g_model_manager.last_switch,
                  ls_after |-> g_model_manager.last_switch,
                  cur_before |-> g_model_manager.current_model,
                  cur_after |-> g_model_manager.current_model]
            /\ UNCHANGED mm_threads
  /\ UNCHANGED <<now, ctxVars, fbVars, dVars, g_model_manager, model_registry, mm_switch,
                 statsVars>>

\* model_manager_select_model, lines 339-353.
MMSelectCommit(t) ==
  /\ mm_threads[t].pc = "commit"
  /\ g_model_manager' =
       select_commit(g_model_manager, mm_threads[t].best_model, mm_threads[t].now)
  /\ mm_last' =
       [op |-> "select", thread |-> t, command |-> mm_threads[t].command,
        at |-> mm_threads[t].now,
        rc |-> IF g_model_manager' # g_model_manager THEN 1 ELSE 0,
        ls_gate |-> mm_threads[t].ls_seen,
        ls_before |-> g_model_manager.last_switch,
        ls_after |-> g_model_manager'.last_switch,
        cur_before |-> g_model_manager.current_model,
        cur_after |-> g_model_manager'.current_model]
  /\ mm_threads' = [mm_threads EXCEPT ![t] = [pc |-> "idle", command |-> <<>>, now |-> 0,
                                                task_type |-> "", best_model |-> 0,
                                                ls_seen |-> 0]]
  /\ mm_switch' =
       IF g_model_manager' # g_model_manager
         THEN [by |-> "select", at |-> now, model |-> g_model_manager'.current_model]
         ELSE mm_switch
  /\ UNCHANGED <<now, ctxVars, fbVars, dVars, model_registry, statsVars>>

\* model_manager_set_model.
MMSetModel(model_name) ==
  /\ g_model_manager' =
       model_manager_set_model(g_model_manager, model_registry, model_name, now)
  /\ mm_last' =
       [op |-> "set_model", thread |-> 0, command |-> model_name, at |-> now,
        rc |-> set_model_rc(model_registry, model_name),
        ls_gate |-> g_model_manager.last_switch,
        ls_before |-> g_model_manager.last_switch,
        ls_after |-> g_model_manager'.last_switch,
        cur_before |-> g_model_manager.current_model,
        cur_after |-> g_model_manager'.current_model]
  /\ mm_switch' =
       IF set_model_rc(model_registry, model_name) = 0
         THEN [by |-> "set_model", at |-> now, model |-> g_model_manager'.current_model]
         ELSE mm_switch
  /\ UNCHANGED <<now, ctxVars, fbVars, dVars, model_registry, mm_threads, statsVars>>

\* model_manager_set_auto_switch.
MMSetAutoSwitch(enabled) ==
  /\ g_model_manager' = [g_model_manager EXCEPT !.auto_switch_enabled = enabled]
  /\ UNCHANGED <<now, ctxVars, fbVars, dVars, model_registry, mm_threads, mm_last,
                 mm_switch, statsVars>>

\* The clock advances by d seconds.
MMTick(d) ==
  /\ now + d <= StartTime + MaxElapsed
  /\ now' = now + d
  /\ UNCHANGED <<ctxVars, fbVars, mmVars, dVars>>

NextModel ==
  \/ \E t \in MMThreads, command \in MMCommands : MMSelectBegin(t, command)
  \/ \E t \in MMThreads : MMSelectCommit(t)
  \/ \E model_name \in MMModelNames : MMSetModel(model_name)
  \/ \E enabled \in BOOLEAN : MMSetAutoSwitch(enabled)
  \/ \E d \in {TickStep, 2 * TickStep - 1} : MMTick(d)

SpecModel == InitModel /\ [][NextModel]_vars

(***************************************************************************)
(* SpecStats: model_manager_update_stats, called by concurrent workers.    *)
(***************************************************************************)
\* Calls begun so far.
StatsBegun ==
  stats_calls[ModelMistral] + stats_calls[ModelUnknown]
  + Cardinality({t \in MMThreads : stats_threads[t].pc # "idle"})

\* model_manager_update_stats, line 366: the call, up to the lock taken.
StatsLock(t, model_name, success, response_time) ==
  /\ stats_threads[t].pc = "idle"
  /\ StatsBegun < MaxStatsCalls
  /\ ~mutex_held(stats_mutex)
  /\ stats_mutex' = t
  /\ stats_threads' =
       [stats_threads EXCEPT ![t] =
          [pc |-> "locked", model_name |-> model_name, success |-> success,
           response_time |-> response_time, seen |-> 0, before |-> model_registry]]
  /\ UNCHANGED <<now, ctxVars, fbVars, dVars, g_model_manager, model_registry, mm_threads,
                 mm_last, mm_switch, stats_calls>>

\* model_manager_update_stats, lines 368-376: the search, and the counter read.
StatsLoad(t) ==
  LET call == stats_threads[t]
      i == stats_entry(model_registry, call.model_name)
  IN  /\ call.pc = "locked"
      /\ stats_threads' =
           [stats_threads EXCEPT ![t] =
              IF i = 0
                THEN [call EXCEPT !.pc = "unlock"]
                ELSE [call EXCEPT !.pc = "store",
                                  !.seen = stats_counter(model_registry[i], call.success)]]
      /\ UNCHANGED <<now, ctxVars, fbVars, dVars, g_model_manager, model_registry,
                     mm_threads, mm_last, mm_switch, stats_mutex, stats_calls>>

\* model_manager_update_stats, lines 372-393: the counter written, the average and the
\* score after it.
StatsStore(t) ==
  /\ stats_threads[t].pc = "store"
  /\ model_registry' =
       [model_registry EXCEPT ![stats_entry(model_registry, stats_threads[t].model_name)] =
          update_stats_entry(@, stats_threads[t].success, stats_threads[t].response_time,
                             stats_threads[t].seen)]
  /\ stats_threads' = [stats_threads EXCEPT ![t].pc = "unlock"]
  /\ UNCHANGED <<now, ctxVars, fbVars, dVars, g_model_manager, mm_threads, mm_last,
                 mm_switch, stats_mutex, stats_calls>>

\* model_manager_update_stats, line 396: the unlock and the return.
StatsUnlock(t) ==
  /\ stats_threads[t].pc = "unlock"
  /\ stats_mutex' = 0
  /\ stats_calls' = [stats_calls EXCEPT ![stats_threads[t].model_name] = @ + 1]
  /\ mm_last' = [op |-> "update_stats", thread |-> t,
                 model_name |-> stats_threads[t].model_name,
                 success |-> stats_threads[t].success,
                 before |-> stats_threads[t].before, after |-> model_registry]
  /\ stats_threads' = [stats_threads EXCEPT ![t] = NoStatsCall]
  /\ UNCHANGED <<now, ctxVars, fbVars, dVars, g_model_manager, model_registry, mm_threads,
                 mm_switch>>

NextStats ==
  \/ \E t \in MMThreads, model_name \in StatsNames, success \in BOOLEAN,
         response_time \in {ResponseFast, ResponseSlow} :
         StatsLock(t, model_name, success, response_time)
  \/ \E t \in MMThreads : StatsLoad(t)
  \/ \E t \in MMThreads : StatsStore(t)
  \/ \E t \in MMThreads : StatsUnlock(t)

SpecStats == InitModel /\ [][NextStats]_vars

(***************************************************************************)
(* SpecSelect: models.json loaded into the registry, and the selector.     *)
(***************************************************************************)
\* The contents of models.json: no file, no JSON, one element for a model, and an array
\* longer than the registry.
ModelsFiles ==
  {ModelsFile("missing", <<>>), ModelsFile("invalid", <<>>)}
  \cup {ModelsFile("loaded", <<ModelsEntry(name, enabled, has_priority, FlatPriority)>>) :
          name \in {ModelCodellama, ModelPhi3, ModelMistral, ModelUnknown},
          enabled \in BOOLEAN, has_priority \in BOOLEAN}
  \cup {ModelsFile("loaded", <<ModelsEntry(name, TRUE, TRUE, FloorPriority)>>) :
          name \in {ModelCodellama, ModelMistral}}
  \cup {ModelsFile("loaded", [i \in 1..(MAX_MODELS + 1) |->
                               IF i <= MAX_MODELS
                                 THEN ModelsEntry(ModelUnknown, TRUE, FALSE, 0)
                                 ELSE ModelsEntry(ModelLlama, FALSE, FALSE, 0)])}

\* model_manager_load_config.
MMLoadConfig(file) ==
  /\ model_registry' = model_manager_load_config(model_registry, file).registry
  /\ mm_last' = [op |-> "load_config", file |-> file,
                 rc |-> model_manager_load_config(model_registry, file).rc]
  /\ UNCHANGED <<now, ctxVars, fbVars, dVars, g_model_manager, mm_threads, mm_switch,
                 statsVars>>

\* select_best_model.
MMSelectBest(task_type) ==
  /\ mm_last' = [op |-> "best", task_type |-> task_type,
                 best_model |-> select_best_model(model_registry, task_type)]
  /\ UNCHANGED <<now, ctxVars, fbVars, dVars, g_model_manager, model_registry, mm_threads,
                 mm_switch, statsVars>>

\* model_manager_update_stats, a call that meets no other.
MMUpdateStats(model_name, success, response_time) ==
  /\ stats_calls[ModelMistral] + stats_calls[ModelUnknown] < MaxSelectStats
  /\ model_registry' =
       model_manager_update_stats(model_registry, model_name, success, response_time)
  /\ stats_calls' = [stats_calls EXCEPT ![model_name] = @ + 1]
  /\ mm_last' = [op |-> "update_stats", thread |-> 0, model_name |-> model_name,
                 success |-> success, before |-> model_registry, after |-> model_registry']
  /\ UNCHANGED <<now, ctxVars, fbVars, dVars, g_model_manager, mm_threads, mm_switch,
                 stats_mutex, stats_threads>>

NextSelect ==
  \/ \E file \in ModelsFiles : MMLoadConfig(file)
  \/ \E model_name \in StatsNames, success \in BOOLEAN,
         response_time \in {ResponseFast, ResponseSlow} :
         MMUpdateStats(model_name, success, response_time)
  \/ \E i \in 1..Len(task_types_order) : MMSelectBest(task_types_order[i])

SpecSelect == InitModel /\ [][NextSelect]_vars

(***************************************************************************)
(* SpecSummary: the interpret and chat branches of concurrent session      *)
(* workers, from the refresh to the backend call, around the static buffer *)
(* of ai_context_to_summary.                                                *)
(***************************************************************************)
\* The other workers that are inside snprintf on the static buffer.
OthersWriting(t) == {o \in 1..MAX_CLIENTS \ {t} : sum_threads[o].pc = "snprintf"}

\* ai_daemon.c:219-221 and 227 (363 for chat): the refresh of a stale context, then
\* ai_context_to_summary entered: snprintf starts to write the static buffer from this
\* session's context.  Bytes of two writers at once give a mixed buffer.
SummaryBegin(t) ==
  /\ sum_threads[t].pc = "recv"
  /\ sum_threads[t].calls < MaxSummaryCalls
  /\ LET c == IF ai_context_needs_refresh(sum_threads[t].context, now)
                 THEN ai_context_update(sum_threads[t].context, now)
                 ELSE sum_threads[t].context
     IN  /\ sum_threads' = [sum_threads EXCEPT ![t] =
                              [pc |-> "snprintf", context |-> c,
                               read |-> sum_threads[t].read,
                               calls |-> sum_threads[t].calls + 1]]
         /\ summary' = [of |-> t, as_of |-> c.identity_at,
                        state |-> IF OthersWriting(t) = {} THEN "partial" ELSE "mixed"]
  /\ UNCHANGED <<now, ctx, inserted, ocVars, fbVars, mmVars, dVars>>

\* context_manager.c:156-162: snprintf done, the address of the static buffer returned.
SummaryEnd(t) ==
  /\ sum_threads[t].pc = "snprintf"
  /\ sum_threads' = [sum_threads EXCEPT ![t].pc = "backend"]
  /\ summary' = IF OthersWriting(t) = {} /\ summary.state = "partial"
                  THEN [summary EXCEPT !.state = "whole"]
                  ELSE summary
  /\ UNCHANGED <<now, ctx, inserted, ocVars, fbVars, mmVars, dVars>>

\* ai_daemon.c:231 (368): ollama_interpret_command reads the buffer through the pointer it
\* was given (ollama_client.c:311-314, 172-197), whatever the buffer holds by then.
SummaryRead(t) ==
  /\ sum_threads[t].pc = "backend"
  /\ sum_threads' = [sum_threads EXCEPT ![t].pc = "recv", ![t].read = summary]
  /\ UNCHANGED <<now, ctx, inserted, summary, ocVars, fbVars, mmVars, dVars>>

SummaryTick(d) ==
  /\ now + d <= StartTime + SummaryTicks * (CONTEXT_STALE_SECONDS + 1)
  /\ now' = now + d
  /\ UNCHANGED <<ctxVars, fbVars, mmVars, dVars>>

NextSummary ==
  \/ \E t \in 1..MAX_CLIENTS : SummaryBegin(t)
  \/ \E t \in 1..MAX_CLIENTS : SummaryEnd(t)
  \/ \E t \in 1..MAX_CLIENTS : SummaryRead(t)
  \/ \E d \in {CONTEXT_STALE_SECONDS, CONTEXT_STALE_SECONDS + 1} : SummaryTick(d)

SpecSummary == InitContext /\ [][NextSummary]_vars

(***************************************************************************)
(* Spec: the acceptor, the session workers and the shutdown of ai_daemon.c. *)
(***************************************************************************)
\* What popen and the process can come to.
RunListing == [popen_ok |-> TRUE, out |-> TextFileList, code |-> 0]
RunFailing == [popen_ok |-> TRUE, out |-> <<>>, code |-> 1]
RunNoShell == [popen_ok |-> FALSE, out |-> <<>>, code |-> 0]
Runs == {RunListing, RunFailing, RunNoShell}

\* What the environment of one request comes to: the backend exchange of
\* ollama_interpret_command, the popen of execute_command_safely, the two exchanges of the
\* status action, the bytes found in models_list, and the lock of ollama_set_model.
DefaultEnv ==
  [backend |-> [kind |-> "curl_fail", text |-> <<>>],
   run |-> RunListing,
   status_ok |-> FALSE,
   listing |-> [kind |-> "unreachable", names |-> <<>>],
   memory |-> [text |-> <<>>, bytes |-> 2],
   lock_ok |-> TRUE]

\* The request {"action": action, "command": command}.
Req(action, command) ==
  [valid |-> TRUE, has_action |-> TRUE, action |-> action, has_command |-> TRUE,
   command |-> command, has_model |-> FALSE, model |-> <<>>]

\* The requests, with their environments, that sessions send in Spec.
SessionInputs ==
  { <<Req("execute", CmdLs), DefaultEnv>>,
    <<Req("get_context", <<>>), DefaultEnv>> }

\* The configuration files a start can find.
Configs ==
  { ConfigFile("missing"), ConfigFile("empty"), ConfigFile("invalid"),
    [ConfigFile("loaded") EXCEPT !.has_model = TRUE, !.model = ModelCodellama,
                                 !.has_safety_mode = TRUE, !.safety_mode = TRUE,
                                 !.has_confirmation_required = TRUE,
                                 !.confirmation_required = FALSE] }

Init ==
  /\ now = StartTime
  /\ CtxIdle
  /\ FbIdle
  /\ MMIdle
  /\ \E config \in Configs : g_daemon = init_daemon(config)
  /\ clients = [i \in 1..MAX_CLIENTS |-> NoClient]
  /\ acceptor = [pc |-> "accept", i |-> 0, fd |-> 0]
  /\ conns = [fd \in 1..MaxConns |-> "none"]
  /\ closes = [fd \in 1..MaxConns |-> 0]
  /\ popen_log = {}
  /\ sent = NoSent
  /\ offered = {}
  /\ nreq = 0

\* daemon_main_loop, line 651: the loop's condition holds and accept() is called.  The
\* acceptor's pc is "accept" at the top of the loop and "blocked" inside accept().
MainLoop ==
  /\ acceptor.pc = "accept"
  /\ g_daemon.running
  /\ acceptor' = [acceptor EXCEPT !.pc = "blocked"]
  /\ UNCHANGED <<now, ctxVars, fbVars, mmVars, g_daemon, clients, conns, closes, popen_log, sent,
                 offered, nreq>>

\* accept_client_connection, lines 437-443: the signal ends accept() with EINTR.  A
\* handler installed with signal() may instead let accept() go on waiting.
AcceptInterrupted ==
  /\ acceptor.pc = "blocked"
  /\ ~g_daemon.running
  /\ acceptor' = [acceptor EXCEPT !.pc = "accept"]
  /\ UNCHANGED <<now, ctxVars, fbVars, mmVars, g_daemon, clients, conns, closes, popen_log, sent,
                 offered, nreq>>

\* accept_client_connection, lines 437-450: accept() returns the next connection and the
\* clients mutex is taken.
AcceptConnection ==
  /\ acceptor.pc = "blocked"
  /\ \E fd \in 1..MaxConns :
        /\ conns[fd] = "none"
        /\ \A other \in 1..(fd - 1) : conns[other] # "none"
        /\ conns' = [conns EXCEPT ![fd] = "accepted"]
        /\ closes' = closes
        /\ acceptor' = [pc |-> "scan", i |-> 1, fd |-> fd]
  /\ UNCHANGED <<now, ctxVars, fbVars, mmVars, g_daemon, clients, popen_log, sent,
                 offered, nreq>>

\* accept_client_connection, lines 452-483: one turn of the scan.  The slot's active flag
\* is read as it is now (workers clear it without the mutex).
ScanSlot(spawn_ok) ==
  /\ acceptor.pc = "scan"
  /\ CASE scan_slot(clients, acceptor.i) = "next" ->
            /\ acceptor' = [acceptor EXCEPT !.i = acceptor.i + 1]
            /\ UNCHANGED <<clients, conns, closes>>
       [] scan_slot(clients, acceptor.i) = "take" /\ spawn_ok ->
            /\ clients' = [clients EXCEPT ![acceptor.i] =
                             [@ EXCEPT !.active = TRUE, !.socket_fd = acceptor.fd,
                                       !.pc = "start"]]
            /\ conns' = [conns EXCEPT ![acceptor.fd] = "session"]
            /\ closes' = closes
            /\ acceptor' = [pc |-> "accept", i |-> 0, fd |-> 0]
       [] scan_slot(clients, acceptor.i) = "take" /\ ~spawn_ok ->
            /\ clients' = [clients EXCEPT ![acceptor.i] =
                             [@ EXCEPT !.active = FALSE, !.socket_fd = acceptor.fd]]
            /\ conns' = [conns EXCEPT ![acceptor.fd] = "refused"]
            /\ closes' = [closes EXCEPT ![acceptor.fd] = @ + 1]
            /\ acceptor' = [pc |-> "accept", i |-> 0, fd |-> 0]
       [] OTHER ->
            /\ conns' = [conns EXCEPT ![acceptor.fd] = "rejected"]
            /\ closes' = [closes EXCEPT ![acceptor.fd] = @ + 1]
            /\ acceptor' = [pc |-> "accept", i |-> 0, fd |-> 0]
            /\ UNCHANGED clients
  /\ UNCHANGED <<now, ctxVars, fbVars, mmVars, g_daemon, popen_log, sent, offered, nreq>>

\* client_thread, lines 399-402: the new thread builds its context.
WorkerStart(i, snapshot_len) ==
  /\ clients[i].pc = "start"
  /\ clients' = [clients EXCEPT ![i].context = ai_context_create(now, snapshot_len),
                                ![i].pc = "loop"]
  /\ UNCHANGED <<now, ctxVars, fbVars, mmVars, g_daemon, acceptor, conns, closes, popen_log,
                 sent, offered, nreq>>

\* client_thread, lines 423-426: the end of the thread.
worker_exit(i) ==
  /\ clients' = [clients EXCEPT ![i].active = FALSE, ![i].pc = "done"]
  /\ conns' = [conns EXCEPT ![clients[i].socket_fd] = "closed"]
  /\ closes' = [closes EXCEPT ![clients[i].socket_fd] = @ + 1]

\* client_thread, line 404: the loop's condition.
WorkerLoop(i) ==
  /\ clients[i].pc = "loop"
  /\ IF clients[i].active /\ g_daemon.running
       THEN /\ clients' = [clients EXCEPT ![i].pc = "recv"]
            /\ UNCHANGED <<conns, closes>>
       ELSE worker_exit(i)
  /\ UNCHANGED <<now, ctxVars, fbVars, mmVars, g_daemon, acceptor, popen_log, sent,
                 offered, nreq>>

\* client_thread, lines 405-420: recv() returns a request, handle_client_request answers
\* it and the answer is sent.  limit bounds the requests of one run.
WorkerRecv(i, request, env, limit) ==
  /\ clients[i].pc = "recv"
  /\ nreq < limit
  /\ LET handled == handle_client_request(clients[i].context, g_daemon, request, env, now)
         message == client_thread_send(handled, 2 * MAX_COMMAND_LEN)
         action == IF request.has_action THEN request.action ELSE "interpret"
         command == IF request.has_command THEN request.command ELSE <<>>
         interpreted == ollama_interpret_command(env.backend, MAX_COMMAND_LEN)
     IN  /\ clients' = [clients EXCEPT ![i].context = handled.context, ![i].pc = "loop"]
         /\ g_daemon' = handled.daemon
         /\ popen_log' = popen_log \cup {handled.ran[k] : k \in 1..Len(handled.ran)}
         /\ sent' =
              [handled |-> TRUE, slot |-> i, request |-> request,
               backend |-> IF request.valid /\ action \in {"interpret", "chat"}
                             THEN env.backend
                             ELSE [kind |-> "none", text |-> <<>>],
               run_code |-> IF Len(handled.ran) > 0 THEN env.run.code ELSE 0,
               fields |-> message.fields, bytes |-> message.bytes, cut |-> message.cut,
               ran |-> handled.ran, confirm |-> g_daemon.confirmation_required,
               follow_up |-> request.valid /\ action = "execute" /\ command \in offered,
               history_before |-> clients[i].context.recent_commands,
               history_after |-> handled.context.recent_commands,
               at |-> now,
               calls |-> handle_client_request_calls(clients[i].context, g_daemon, request,
                                                     env, now),
               context_before |-> clients[i].context,
               context_after |-> handled.context]
         /\ offered' =
              IF /\ request.valid
                 /\ action = "interpret"
                 /\ g_daemon.confirmation_required
                 /\ interpreted.rc = 0
                THEN offered \cup {interpreted.text}
                ELSE offered
  /\ nreq' = nreq + 1
  /\ UNCHANGED <<now, ctxVars, fbVars, mmVars, acceptor, conns, closes>>

\* client_thread, lines 407-409: recv() returns 0 or an error.
WorkerDisconnect(i) ==
  /\ clients[i].pc = "recv"
  /\ worker_exit(i)
  /\ UNCHANGED <<now, ctxVars, fbVars, mmVars, g_daemon, acceptor, popen_log, sent,
                 offered, nreq>>

\* signal_handler.
Signal ==
  /\ g_daemon.running
  /\ g_daemon' = [g_daemon EXCEPT !.running = FALSE]
  /\ UNCHANGED <<now, ctxVars, fbVars, mmVars, clients, acceptor, conns, closes, popen_log, sent,
                 offered, nreq>>

\* daemon_main_loop ends and cleanup_daemon begins, lines 651 and 610-615.
MainExit ==
  /\ acceptor.pc = "accept"
  /\ ~g_daemon.running
  /\ acceptor' = [pc |-> "cleanup", i |-> 1, fd |-> 0]
  /\ UNCHANGED <<now, ctxVars, fbVars, mmVars, g_daemon, clients, conns, closes, popen_log, sent,
                 offered, nreq>>

\* cleanup_daemon, lines 616-621: one turn of the loop, up to pthread_join.
CleanupSlot ==
  /\ acceptor.pc = "cleanup"
  /\ IF acceptor.i > MAX_CLIENTS
       THEN /\ acceptor' = [acceptor EXCEPT !.pc = "finished"]
            /\ UNCHANGED <<clients, conns, closes>>
       ELSE IF clients[acceptor.i].active
              THEN /\ clients' = [clients EXCEPT ![acceptor.i].active = FALSE]
                   /\ conns' = [conns EXCEPT ![clients[acceptor.i].socket_fd] = "closed"]
                   /\ closes' = [closes EXCEPT ![clients[acceptor.i].socket_fd] = @ + 1]
                   /\ acceptor' = [acceptor EXCEPT !.pc = "join"]
              ELSE /\ acceptor' = [acceptor EXCEPT !.i = acceptor.i + 1]
                   /\ UNCHANGED <<clients, conns, closes>>
  /\ UNCHANGED <<now, ctxVars, fbVars, mmVars, g_daemon, popen_log, sent, offered, nreq>>

\* cleanup_daemon, lines 622-624: pthread_join returns once the worker has ended.
CleanupJoin ==
  /\ acceptor.pc = "join"
  /\ clients[acceptor.i].pc = "done"
  /\ acceptor' = [acceptor EXCEPT !.pc = "cleanup", !.i = acceptor.i + 1]
  /\ UNCHANGED <<now, ctxVars, fbVars, mmVars, g_daemon, clients, conns, closes, popen_log, sent,
                 offered, nreq>>

Next ==
  \/ MainLoop
  \/ AcceptInterrupted
  \/ AcceptConnection
  \/ \E spawn_ok \in BOOLEAN : ScanSlot(spawn_ok)
  \/ \E i \in 1..MAX_CLIENTS : WorkerStart(i, SmallSnapshot)
  \/ \E i \in 1..MAX_CLIENTS : WorkerLoop(i)
  \/ \E i \in 1..MAX_CLIENTS, input \in SessionInputs :
        WorkerRecv(i, input[1], input[2], MaxRequests)
  \/ \E i \in 1..MAX_CLIENTS : WorkerDisconnect(i)
  \/ Signal
  \/ MainExit
  \/ CleanupSlot
  \/ CleanupJoin

Spec == Init /\ [][Next]_vars

\* The steps that the daemon's own threads take once they can: the scheduler runs them.
\* A connection, a request or a disconnect is the client's to make and is not among them.
\* accept() is taken to end with EINTR on the signal.
Scheduled ==
  /\ WF_vars(MainLoop)
  /\ WF_vars(AcceptInterrupted)
  /\ WF_vars(\E spawn_ok \in BOOLEAN : ScanSlot(spawn_ok))
  /\ \A i \in 1..MAX_CLIENTS : WF_vars(WorkerStart(i, SmallSnapshot))
  /\ \A i \in 1..MAX_CLIENTS : WF_vars(WorkerLoop(i))
  /\ WF_vars(MainExit)
  /\ WF_vars(CleanupSlot)
  /\ WF_vars(CleanupJoin)

SpecShutdown == Init /\ [][Next]_vars /\ Scheduled

(***************************************************************************)
(* SpecBackend: the ollama_client calls of concurrent session workers:     *)
(* interpret and chat through ollama_interpret_command, status through     *)
(* ollama_check_status and ollama_list_models.                              *)
(***************************************************************************)
\* What a successful HTTP exchange can hold.
BackendReplies ==
  {[kind |-> "bad_json", text |-> <<>>], [kind |-> "no_response_field", text |-> <<>>],
   [kind |-> "reply", text |-> CmdLs]}

\* The response object that handle_client_request builds from the call's outcome.
backend_fields(call, backend) ==
  LET env == [DefaultEnv EXCEPT !.backend = backend]
      c == ai_context_create(StartTime, SmallSnapshot)
  IN  IF call = "interpret"
        THEN handle_interpret(c, default_daemon, TextListFiles, env).fields
        ELSE handle_chat(c, default_daemon, TextListFiles, env).fields

\* ai_daemon.c:231, 367 or 268: a handler enters its ollama_client call.
BkCall(t, call) ==
  /\ oc_threads[t].pc \in {"idle", "done"}
  /\ oc_threads[t].calls < MaxBackendCalls
  /\ oc_threads' = [oc_threads EXCEPT ![t] =
                      [NoBackendCall EXCEPT !.pc = IF call = "status" THEN "check" ELSE "lock",
                                            !.call = call,
                                            !.calls = oc_threads[t].calls + 1]]
  /\ UNCHANGED <<now, ctx, inserted, sumVars, g_client, fbVars, mmVars, dVars>>

\* ollama_interpret_command, line 306, the timed lock obtained; send_ollama_request up to
\* the loop (lines 238-246): the options of the shared handle set for this request.
BkLock(t) ==
  /\ oc_threads[t].pc = "lock"
  /\ ~mutex_held(g_client.mutex)
  /\ g_client' = [mutex |-> t, users |-> g_client.users \cup {t}]
  /\ oc_threads' = [oc_threads EXCEPT ![t].pc = "perform", ![t].attempt = 0,
                                      ![t].backoff = 1, ![t].res = "CURLE_OK"]
  /\ UNCHANGED <<now, ctx, inserted, sumVars, fbVars, mmVars, dVars>>

\* Lines 306-309: five seconds have passed with the mutex held by another worker.
BkLockTimeout(t) ==
  /\ oc_threads[t].pc = "lock"
  /\ mutex_held(g_client.mutex)
  /\ oc_threads' = [oc_threads EXCEPT
                      ![t].pc = "done", ![t].rc = -1, ![t].res = "ETIMEDOUT",
                      ![t].fields = backend_fields(oc_threads[t].call,
                                                   [kind |-> "lock_timeout", text |-> <<>>])]
  /\ UNCHANGED <<now, ctx, inserted, sumVars, g_client, fbVars, mmVars, dVars>>

\* send_ollama_request, lines 247-249: one curl_easy_perform and the test of its result.
BkPerform(t, res) ==
  /\ oc_threads[t].pc = "perform"
  /\ oc_threads' = [oc_threads EXCEPT
                      ![t].res = res,
                      ![t].performs = oc_threads[t].performs + 1,
                      ![t].successes = oc_threads[t].successes
                                       + (IF res = "CURLE_OK" THEN 1 ELSE 0),
                      ![t].pc = IF res = "CURLE_OK" THEN "after" ELSE "sleep"]
  /\ UNCHANGED <<now, ctx, inserted, sumVars, g_client, fbVars, mmVars, dVars>>

\* Lines 250-254: sleep(backoff), the backoff doubled, attempt++, the test of the loop.
BkSleep(t) ==
  /\ oc_threads[t].pc = "sleep"
  /\ oc_threads' = [oc_threads EXCEPT
                      ![t].slept = Append(oc_threads[t].slept, oc_threads[t].backoff),
                      ![t].backoff = backoff_next(oc_threads[t].backoff),
                      ![t].attempt = oc_threads[t].attempt + 1,
                      ![t].pc = IF oc_threads[t].attempt + 1 < max_attempts
                                  THEN "perform" ELSE "after"]
  /\ UNCHANGED <<now, ctx, inserted, sumVars, g_client, fbVars, mmVars, dVars>>

\* Lines 257-293, the unlock of ollama_interpret_command (316) and its result, and the
\* response of the handler.  reply is what the exchange held if an attempt succeeded.
BkReturn(t, reply) ==
  /\ oc_threads[t].pc = "after"
  /\ LET backend == IF oc_threads[t].res = "CURLE_OK"
                       THEN reply
                       ELSE [kind |-> "curl_fail", text |-> <<>>]
     IN  oc_threads' = [oc_threads EXCEPT
                          ![t].pc = "done",
                          ![t].rc = ollama_interpret_command(backend, MAX_COMMAND_LEN).rc,
                          ![t].fields = backend_fields(oc_threads[t].call, backend)]
  /\ g_client' = [mutex |-> 0, users |-> g_client.users \ {t}]
  /\ UNCHANGED <<now, ctx, inserted, sumVars, fbVars, mmVars, dVars>>

\* ollama_check_status, lines 346-350, and ollama_list_models, lines 376-380: the options
\* of the shared handle set and curl_easy_perform entered, with no lock taken.
StPerform(t) ==
  /\ oc_threads[t].pc \in {"check", "list"}
  /\ g_client' = [g_client EXCEPT !.users = g_client.users \cup {t}]
  /\ oc_threads' = [oc_threads EXCEPT
                      ![t].pc = IF oc_threads[t].pc = "check" THEN "in_check" ELSE "in_list",
                      ![t].performs = oc_threads[t].performs + 1]
  /\ UNCHANGED <<now, ctx, inserted, sumVars, fbVars, mmVars, dVars>>

\* curl_easy_perform of the status request returns (lines 350-358, 380-410).
StReturn(t, res) ==
  /\ oc_threads[t].pc \in {"in_check", "in_list"}
  /\ g_client' = [g_client EXCEPT !.users = g_client.users \ {t}]
  /\ oc_threads' = [oc_threads EXCEPT
                      ![t].pc = IF oc_threads[t].pc = "in_check" THEN "list" ELSE "done",
                      ![t].res = res]
  /\ UNCHANGED <<now, ctx, inserted, sumVars, fbVars, mmVars, dVars>>

NextBackend ==
  \/ \E t \in 1..NumWorkers, call \in {"interpret", "chat", "status"} : BkCall(t, call)
  \/ \E t \in 1..NumWorkers : BkLock(t)
  \/ \E t \in 1..NumWorkers : BkLockTimeout(t)
  \/ \E t \in 1..NumWorkers, res \in {"CURLE_OK", "CURLE_COULDNT_CONNECT"} :
         BkPerform(t, res)
  \/ \E t \in 1..NumWorkers : BkSleep(t)
  \/ \E t \in 1..NumWorkers, reply \in BackendReplies : BkReturn(t, reply)
  \/ \E t \in 1..NumWorkers : StPerform(t)
  \/ \E t \in 1..NumWorkers, res \in {"CURLE_OK", "CURLE_COULDNT_CONNECT"} :
         StReturn(t, res)

SpecBackend == InitContext /\ [][NextBackend]_vars

\* The steps of a worker inside ollama_interpret_command: the timed lock ends after five
\* seconds at the latest, curl_easy_perform after its timeout, sleep after its time.
BackendStep(t) ==
  \/ BkLock(t)
  \/ BkLockTimeout(t)
  \/ \E res \in {"CURLE_OK", "CURLE_COULDNT_CONNECT"} : BkPerform(t, res)
  \/ BkSleep(t)
  \/ \E reply \in BackendReplies : BkReturn(t, reply)

SpecBackendFair == SpecBackend /\ \A t \in 1..NumWorkers : WF_vars(BackendStep(t))

(***************************************************************************)
(* SpecDispatch: one session and every kind of request it can send.        *)
(***************************************************************************)
\* What the backend exchange of one ollama_interpret_command call can come to.
Replies == {CmdLs, TextLsNewline, CmdRmRoot, TextUnsafe, TextUnclear, TextUnsafeUnclear}
Backends ==
  {[kind |-> k, text |-> <<>>] :
     k \in {"lock_timeout", "curl_fail", "bad_json", "no_response_field"}}
    \cup {[kind |-> "reply", text |-> text] : text \in Replies}

\* What the bytes of the uninitialised models_list can read as: an empty text, the text
\* left by an earlier call, or a run of bytes that ends beyond the buffer.
Memories ==
  { [text |-> <<>>, bytes |-> 2],
    [text |-> TextFileList, bytes |-> 2 + EscLen(TextFileList)],
    [text |-> <<>>, bytes |-> OverrunLen] }

\* What the GET of ollama_list_models can come to.
Listings ==
  { [kind |-> "listed", names |-> <<ModelCodellama, ModelPhi3>>],
    [kind |-> "unreachable", names |-> <<>>],
    [kind |-> "no_models_key", names |-> <<>>] }

InterpretInputs ==
  { <<req, [DefaultEnv EXCEPT !.backend = backend, !.run = run]>> :
      req \in {Req("interpret", TextListFiles),
               [Req("", TextListFiles) EXCEPT !.has_action = FALSE]},
      backend \in Backends, run \in Runs }

ExecuteInputs ==
  { <<req, [DefaultEnv EXCEPT !.run = run]>> :
      req \in {Req("execute", CmdLs), Req("execute", CmdRmRoot),
               [Req("execute", <<>>) EXCEPT !.has_command = FALSE]},
      run \in Runs }

StatusInputs ==
  { <<Req("status", <<>>),
      [DefaultEnv EXCEPT !.status_ok = ok, !.listing = listing, !.memory = memory]>> :
      ok \in BOOLEAN, listing \in Listings, memory \in Memories }

OtherInputs ==
  { <<[Req("set_model", <<>>) EXCEPT !.has_model = TRUE, !.model = ModelPhi3],
      [DefaultEnv EXCEPT !.lock_ok = ok]>> : ok \in BOOLEAN }
    \cup { <<[Req("set_model", <<>>) EXCEPT !.has_model = TRUE, !.model = ModelUnknown],
             DefaultEnv>>,
           <<Req("set_model", <<>>), DefaultEnv>>,
           <<Req("get_context", <<>>), DefaultEnv>>,
           <<Req("classify", TextGitAdd), DefaultEnv>>,
           <<Req("classify", TextHello), DefaultEnv>>,
           <<Req("classify", TextHelloList), DefaultEnv>>,
           <<Req("classify", TextThanks), DefaultEnv>>,
           <<Req("classify", TextGitAddCapitals), DefaultEnv>>,
           <<[Req("classify", <<>>) EXCEPT !.has_command = FALSE], DefaultEnv>>,
           <<Req("frobnicate", CmdLs), DefaultEnv>>,
           <<NoRequest, DefaultEnv>> }
    \cup { <<Req("chat", TextHello), [DefaultEnv EXCEPT !.backend = backend]>> :
             backend \in {[kind |-> "reply", text |-> TextChatReply],
                          [kind |-> "reply", text |-> TextUnsafe],
                          [kind |-> "curl_fail", text |-> <<>>]} }

\* An input whose environment differs only in a part that the request never reaches is the
\* same input: the popen of a reply that is not run, the memory of a list that is written.
Reached(input) ==
  /\ (input[2].run # RunListing) =>
        \/ input[1].has_action /\ input[1].action = "execute"
        \/ ollama_interpret_command(input[2].backend, MAX_COMMAND_LEN).rc = 0
  /\ (input[2].memory # DefaultEnv.memory) => input[2].listing.kind # "listed"

DispatchInputs ==
  {input \in InterpretInputs \cup ExecuteInputs \cup StatusInputs \cup OtherInputs :
     Reached(input)}

\* The daemon after load_config with one session whose worker waits in recv().
InitDispatch ==
  /\ now = StartTime
  /\ CtxIdle
  /\ FbIdle
  /\ MMIdle
  /\ \E safety \in BOOLEAN, confirm \in BOOLEAN :
        g_daemon = [default_daemon EXCEPT !.safety_mode = safety,
                                          !.confirmation_required = confirm]
  /\ \E snapshot_len \in {SmallSnapshot, LargeSnapshot} :
        clients = [i \in 1..MAX_CLIENTS |->
                     IF i = 1
                       THEN [active |-> TRUE, socket_fd |-> 1, pc |-> "recv",
                             context |-> ai_context_create(StartTime, snapshot_len)]
                       ELSE NoClient]
  /\ acceptor = [pc |-> "accept", i |-> 0, fd |-> 0]
  /\ conns = [fd \in 1..MaxConns |-> IF fd = 1 THEN "session" ELSE "none"]
  /\ closes = [fd \in 1..MaxConns |-> 0]
  /\ popen_log = {}
  /\ sent = NoSent
  /\ offered = {}
  /\ nreq = 0

\* The clock reaches the age at which a context is refreshed, or passes it.
DispatchTick(d) ==
  /\ now + d <= StartTime + DispatchTicks * (CONTEXT_STALE_SECONDS + 1)
  /\ now' = now + d
  /\ UNCHANGED <<ctxVars, fbVars, mmVars, dVars>>

NextDispatch ==
  \/ \E input \in DispatchInputs : WorkerRecv(1, input[1], input[2], DispatchRequests)
  \/ WorkerLoop(1)
  \/ \E d \in {CONTEXT_STALE_SECONDS, CONTEXT_STALE_SECONDS + 1} : DispatchTick(d)

SpecDispatch == InitDispatch /\ [][NextDispatch]_vars

(***************************************************************************)
(* Claims.                                                                 *)
(***************************************************************************)
\* The last Min(Len(s), n) elements of s.
LastN(s, n) == SubSeq(s, Len(s) - Min(Len(s), n) + 1, Len(s))

\* The first Min(Len(s), n) characters of s.
FirstBytes(s, n) == [i \in 1..Min(Len(s), n) |-> s[i]]

\* C5 as stated: after any sequence of addCommand calls the history holds at most
\* MAX_HISTORY_ENTRIES entries and is exactly the most recent min(n, MAX_HISTORY_ENTRIES)
\* inserted commands, in insertion order.
C5_HistoryIsLastInserted ==
  /\ Len(ctx.recent_commands) <= MAX_HISTORY_ENTRIES
  /\ ctx.recent_commands = LastN(inserted, MAX_HISTORY_ENTRIES)

\* C5 as amended: the history holds at most MAX_HISTORY_ENTRIES entries and is the most
\* recent min(n, MAX_HISTORY_ENTRIES) inserted commands, in insertion order, each cut to
\* its first 255 bytes.
C5_HistoryIsLastInsertedCut ==
  /\ Len(ctx.recent_commands) <= MAX_HISTORY_ENTRIES
  /\ LET last == LastN(inserted, MAX_HISTORY_ENTRIES)
     IN  ctx.recent_commands = [i \in 1..Len(last) |-> FirstBytes(last[i], 255)]

\* C5's case: more insertions than the history holds, a long command among the kept ones.
C5_Witness ==
  /\ Len(inserted) > MAX_HISTORY_ENTRIES
  /\ Len(ctx.recent_commands) = MAX_HISTORY_ENTRIES
  /\ inserted[Len(inserted)] = LongText
  /\ inserted[1] # inserted[Len(inserted) - MAX_HISTORY_ENTRIES + 1]

\* An entry as the store keeps it: the three texts cut to their buffers.
C6_Kept(e) ==
  [natural_command |-> FirstBytes(e.natural_command, 511),
   interpreted_command |-> FirstBytes(e.interpreted_command, 511),
   accepted |-> e.accepted,
   model_used |-> FirstBytes(e.model_used, 63),
   timestamp |-> e.timestamp]

\* C6: the feedback store never holds more than MAX_FEEDBACK_ENTRIES entries, and it is the
\* most recent MAX_FEEDBACK_ENTRIES entries loaded or recorded, in their original order:
\* N+1 entries recorded into an empty store leave N, the first one gone.
C6_FeedbackFifo ==
  /\ Len(feedback_db) <= MAX_FEEDBACK_ENTRIES
  /\ LET last == LastN(recorded, MAX_FEEDBACK_ENTRIES)
     IN  feedback_db = [i \in 1..Len(last) |-> C6_Kept(last[i])]
  /\ (fb_base = 0 /\ Len(recorded) = MAX_FEEDBACK_ENTRIES + 1) =>
        /\ Len(feedback_db) = MAX_FEEDBACK_ENTRIES
        /\ \A i \in 1..MAX_FEEDBACK_ENTRIES : feedback_db[i] = C6_Kept(recorded[i + 1])

\* C6's case: N+1 entries recorded into an empty store, the first unlike the second.
C6_Witness ==
  /\ fb_base = 0
  /\ Len(recorded) = MAX_FEEDBACK_ENTRIES + 1
  /\ Len(feedback_db) = MAX_FEEDBACK_ENTRIES
  /\ recorded[1] # recorded[2]
  /\ feedback_db[1] # C6_Kept(recorded[1])

\* C7: an automatic model selection attempted less than the cooldown (300 s) after the last
\* switch leaves the current model and the last-switch time unchanged.  The attempt's time is
\* the clock it read; the last switch is the one in force when the attempt takes effect.
C7_CooldownKeepsModel ==
  (mm_last.op = "select" /\ mm_last.at - mm_last.ls_before < SWITCH_COOLDOWN) =>
     /\ mm_last.rc = 0
     /\ mm_last.cur_after = mm_last.cur_before
     /\ mm_last.ls_after = mm_last.ls_before

\* What the code does keep: a selection that read a last switch younger than the cooldown at
\* its own check returns without a change.
CooldownSeenAtGate ==
  (mm_last.op = "select" /\ mm_last.at - mm_last.ls_gate < SWITCH_COOLDOWN) =>
     /\ mm_last.rc = 0
     /\ mm_last.cur_after = mm_last.cur_before
     /\ mm_last.ls_after = mm_last.ls_before

(***************************************************************************)
(* Claims about the daemon.                                                *)
(***************************************************************************)
RECURSIVE FieldEnd(_, _)
\* The offset at which the k-th member of a serialised object ends.
FieldEnd(fields, k) ==
  IF k = 0
    THEN 0
    ELSE FieldEnd(fields, k - 1) + 2 + Len(fields[k].name) + 4 + fields[k].bytes

\* The message holds the whole of a member of that name.
Carries(message, name) ==
  \E k \in 1..Len(message.fields) :
     /\ message.fields[k].name = name
     /\ FieldEnd(message.fields, k) <= message.bytes

\* The object that was serialised has a member of that name.
HasField(message, name) ==
  \E k \in 1..Len(message.fields) : message.fields[k].name = name

\* The member of that name.
Field(message, name) ==
  message.fields[CHOOSE k \in 1..Len(message.fields) : message.fields[k].name = name]

SentAction == IF sent.request.has_action THEN sent.request.action ELSE "interpret"
SentCommand == IF sent.request.has_command THEN sent.request.command ELSE <<>>
Answered(action) == sent.handled /\ sent.request.valid /\ SentAction = action
StatusValues == {StatusSuccess, StatusUnsafe, StatusUnclear, StatusError}
CarriesStatus(message) ==
  Carries(message, "status") /\ Field(message, "status").text \in StatusValues

\* C1: a command that matches a destructive pattern of the safety gate is never executed,
\* whether it comes from an execute request or from the interpretation of an interpret
\* request, and the block is reported: the answer runs nothing and its status is not success.
C1_DestructiveNeverRuns ==
  /\ \A command \in popen_log : ~matches_dangerous_pattern(command)
  /\ (Answered("execute") /\ matches_dangerous_pattern(SentCommand)) =>
        /\ sent.ran = <<>>
        /\ CarriesStatus(sent)
        /\ Field(sent, "status").text # StatusSuccess

\* C2: while confirmation is required no request runs a shell command; an interpret
\* request is answered with the interpreted command and no execution result, an execute
\* request with the marker "CONFIRM_REQUIRED: " followed by the command.
C2_ConfirmModeRunsNothing ==
  g_daemon.confirmation_required =>
    /\ popen_log = {}
    /\ sent.handled => sent.ran = <<>>
    /\ Answered("interpret") =>
          /\ ~HasField(sent, "execution_result")
          /\ (Field(sent, "status").text = StatusSuccess) =>
                Carries(sent, "interpreted_command")
    /\ Answered("execute") =>
          /\ Carries(sent, "execution_result")
          /\ Field(sent, "execution_result").text = TextConfirmRequired \o SentCommand

\* C2's case: with confirmation required, an execute request for a destructive command
\* that an interpret request returned earlier has been answered.
C2_Witness ==
  /\ g_daemon.confirmation_required
  /\ Answered("execute")
  /\ SentCommand = CmdRmRoot
  /\ CmdRmRoot \in offered
  /\ Len(sent.history_after) > Len(sent.history_before)

\* C3: with confirmation required, the follow-up execute request for a command that
\* interpret returned runs the command and reports its result.
C3_FollowUpExecuteRuns ==
  (sent.handled /\ sent.confirm /\ sent.follow_up) =>
     /\ sent.ran = <<SentCommand>>
     /\ Carries(sent, "exit_code")
     /\ Field(sent, "exit_code").num = sent.run_code

\* The connections that are sessions.
Sessions == {fd \in 1..MaxConns : conns[fd] = "session"}

\* C4: at most MAX_CLIENTS sessions are active, each held by one active slot; and when the
\* acceptor's scan ends with every slot active, the connection is closed without a worker
\* and every session stays as it was.
C4_FullTableRejects ==
  /\ [](/\ Cardinality(Sessions) <= MAX_CLIENTS
        /\ \A fd \in Sessions :
              Cardinality({i \in 1..MAX_CLIENTS :
                             clients[i].active /\ clients[i].socket_fd = fd}) = 1)
  /\ [][(/\ acceptor.pc = "scan"
         /\ \A i \in 1..MAX_CLIENTS : clients[i].active
         /\ acceptor'.pc = "accept")
          => /\ conns'[acceptor.fd] = "rejected"
             /\ clients' = clients
             /\ \A fd \in Sessions : conns'[fd] = "session"]_vars

\* C4's case: a connection was rejected while every slot holds a session whose worker is
\* alive.
C4_Witness ==
  /\ \E fd \in 1..MaxConns : conns[fd] = "rejected"
  /\ \A i \in 1..MAX_CLIENTS :
        /\ clients[i].active
        /\ clients[i].pc \in {"loop", "recv"}
        /\ conns[clients[i].socket_fd] = "session"
  /\ Cardinality(Sessions) = MAX_CLIENTS

C9_StatusFields ==
  Answered("status") =>
     /\ Carries(sent, "daemon_status")
     /\ Carries(sent, "current_model")
     /\ Carries(sent, "available_models")

\* The status that C10 gives to a backend outcome; a reply with both markers is unsafe.
ExpectedStatus(backend) ==
  CASE backend.kind = "reply" /\ strstr(backend.text, TextUnsafe) -> StatusUnsafe
    [] backend.kind = "reply" /\ strstr(backend.text, TextUnclear) -> StatusUnclear
    [] backend.kind = "reply" -> StatusSuccess
    [] OTHER -> StatusError

\* C10: the status of the answer to an interpret request is success when the backend
\* returned a command, unsafe or unclear when the reply holds that marker, and error for
\* every other outcome; and unless the status is success nothing is run and the history is
\* unchanged.
C10_InterpretStatus ==
  Answered("interpret") =>
     /\ CarriesStatus(sent)
     /\ Field(sent, "status").text = ExpectedStatus(sent.backend)
     /\ (Field(sent, "status").text # StatusSuccess) =>
           sent.ran = <<>> /\ sent.history_after = sent.history_before

\* What the code does keep of C10: the same, but for a backend reply without a "response"
\* member, which is answered as a success.
InterpretStatusButNoResponse ==
  (Answered("interpret") /\ sent.backend.kind # "no_response_field") =>
     /\ CarriesStatus(sent)
     /\ Field(sent, "status").text = ExpectedStatus(sent.backend)
     /\ (Field(sent, "status").text # StatusSuccess) =>
           sent.ran = <<>> /\ sent.history_after = sent.history_before

\* What the code does keep of C3's case: with confirmation required, the follow-up execute
\* request is answered with the marker and the status error.
FollowUpGetsMarker ==
  (sent.handled /\ sent.confirm /\ sent.follow_up) =>
     /\ sent.ran = <<>>
     /\ Field(sent, "execution_result").text = TextConfirmRequired \o SentCommand
     /\ Field(sent, "status").text = StatusError

\* The step in which a worker answers a request.
Answers == nreq' = nreq + 1 /\ sent'.handled

\* The same predicates of the message that the step sends.
AnsweredNext(action) ==
  /\ Answers
  /\ sent'.request.valid
  /\ (IF sent'.request.has_action THEN sent'.request.action ELSE "interpret") = action

\* C11: a chat request is answered with the backend's reply text, unchanged, as
\* chat_response and with the status success, for every reply the backend produces; it runs
\* no command and leaves the session's history as it was.
C11_ChatVerbatim ==
  Answered("chat") =>
     /\ sent.ran = <<>>
     /\ sent.history_after = sent.history_before
     /\ (sent.backend.kind = "reply") =>
           /\ Carries(sent, "chat_response")
           /\ Field(sent, "chat_response").text = sent.backend.text
           /\ CarriesStatus(sent)
           /\ Field(sent, "status").text = StatusSuccess

\* What the code does keep of C11: a chat request runs nothing and leaves the history as it
\* was, and a reply without a marker is answered as a success with the reply's first 1023
\* bytes less the trailing newlines.
ChatRunsNothing ==
  Answered("chat") =>
     /\ sent.ran = <<>>
     /\ sent.history_after = sent.history_before
     /\ (sent.backend.kind = "reply" /\ ExpectedStatus(sent.backend) = StatusSuccess) =>
           /\ Field(sent, "status").text = StatusSuccess
           /\ Field(sent, "chat_response").text =
                StripTrailingNewlines(FirstBytes(sent.backend.text, CHAT_RESPONSE_SIZE - 1))

\* C12: a set_model request makes the named model the current one exactly when the registry
\* holds it and it is enabled; otherwise the current model stays and the answer is an error.
C12_SetModelValidated ==
  [][(AnsweredNext("set_model") /\ sent'.request.has_model) =>
        IF set_model_rc(model_registry, sent'.request.model) = 0
          THEN /\ g_daemon'.current_model = sent'.request.model
               /\ Field(sent', "status").text = StatusSuccess
          ELSE /\ g_daemon'.current_model = g_daemon.current_model
               /\ Field(sent', "status").text = StatusError]_vars

\* What the code does keep of C12: the name of the request becomes the current model, cut
\* to 63 bytes, whenever the backend client's lock is taken in time, whatever the registry
\* holds; otherwise the current model stays and the one error message is sent.
SetModelTakesAnyName ==
  [][(AnsweredNext("set_model") /\ sent'.request.has_model) =>
        \/ /\ g_daemon'.current_model =
                FirstBytes(sent'.request.model, CURRENT_MODEL_SIZE - 1)
           /\ Field(sent', "status").text = StatusSuccess
        \/ /\ g_daemon'.current_model = g_daemon.current_model
           /\ Field(sent', "status").text = StatusError
           /\ Field(sent', "message").text = MsgModelFailed]_vars

\* C13: a payload that does not parse is answered at once on the same connection with the
\* error object; the session stays active with its context and history as they were, and
\* its worker goes back to the loop to receive the next request.
C13_MalformedKeepsSession ==
  [][(Answers /\ ~sent'.request.valid) =>
        /\ sent'.fields = <<JsonString("error", MsgFailedProcess)>>
        /\ ~sent'.cut
        /\ sent'.ran = <<>>
        /\ clients' = [clients EXCEPT ![sent'.slot].pc = "loop"]
        /\ clients'[sent'.slot].active
        /\ conns' = conns
        /\ g_daemon' = g_daemon
        /\ popen_log' = popen_log]_vars

\* C13's case: after the answer to a payload that did not parse, sent when the context had
\* gone stale, the session's worker waits in recv() again, active, its connection open.
C13_Witness ==
  /\ sent.handled
  /\ ~sent.request.valid
  /\ now > StartTime
  /\ clients[sent.slot].pc = "recv"
  /\ clients[sent.slot].active
  /\ conns[clients[sent.slot].socket_fd] = "session"
  /\ nreq < DispatchRequests

\* C14: when the configuration cannot be loaded (the file is missing, empty or no JSON),
\* the daemon started and runs with the defaults: model codellama:7b-instruct, safety mode
\* on, confirmation required.  No request of Spec changes these three.
C14_DefaultsOnLoadFailure ==
  g_daemon.config_file \in {"missing", "empty", "invalid"} =>
     /\ g_daemon.current_model = ModelCodellama
     /\ g_daemon.safety_mode
     /\ g_daemon.confirmation_required

\* What the code does keep of C14: a missing file gives the defaults, an empty or invalid
\* one leaves the zeroes of the global.
LoadFailureLeavesZeroes ==
  /\ g_daemon.config_file = "missing" =>
        /\ g_daemon.current_model = ModelCodellama
        /\ g_daemon.safety_mode
        /\ g_daemon.confirmation_required
  /\ g_daemon.config_file \in {"empty", "invalid"} =>
        /\ g_daemon.current_model = <<>>
        /\ ~g_daemon.safety_mode
        /\ ~g_daemon.confirmation_required

\* The step that releases the listening socket: cleanup_daemon's loop has ended.
ReleasesListener == acceptor.pc = "cleanup" /\ acceptor'.pc = "finished"

\* C15: once the running flag is cleared no connection is accepted any more, and the
\* listening socket is released only when every slot has been told to stop and no session
\* worker is left running.
C15_ShutdownOrder ==
  [][/\ ~g_daemon.running =>
           \A fd \in 1..MaxConns : conns'[fd] = "accepted" => conns[fd] = "accepted"
     /\ ReleasesListener =>
           \A i \in 1..MAX_CLIENTS :
              ~clients[i].active /\ clients[i].pc \in {"none", "done"}]_vars

\* What the code does keep of C15: the listening socket is released only when every slot
\* is inactive and every worker has ended.
ReleaseAfterWorkersEnd ==
  [][ReleasesListener =>
        \A i \in 1..MAX_CLIENTS :
           ~clients[i].active /\ clients[i].pc \in {"none", "done"}]_vars

\* C16: once the running flag is cleared, the acceptor loop ends, every session closes and
\* shutdown completes, given that every thread of the daemon that can take a step takes it.
C16_ShutdownCompletes ==
  (~g_daemon.running) ~>
     /\ acceptor.pc = "finished"
     /\ \A i \in 1..MAX_CLIENTS : ~clients[i].active /\ clients[i].pc \in {"none", "done"}


\* The enabled profiles that support the task type.
Candidates(registry, task_type) ==
  {i \in 1..Len(registry) :
     registry[i].enabled /\ model_supports_task(registry[i], task_type)}

\* Two candidates, alike in latency and priority and without history, i the better scored.
BetterOfTwo(registry, task_type, i, j) ==
  /\ Candidates(registry, task_type) = {i, j}
  /\ registry[i].avg_response_time = registry[j].avg_response_time
  /\ registry[i].priority = registry[j].priority
  /\ registry[i].success_count + registry[i].failure_count = 0
  /\ registry[j].success_count + registry[j].failure_count = 0
  /\ registry[i].performance_score > registry[j].performance_score

\* C17: of two enabled profiles that support the task type, with equal latency, equal
\* priority and no request history, select_best_model returns the one with the higher
\* performance score.
C17_HigherScoreWins ==
  mm_last.op = "best" =>
    \A i, j \in 1..MAX_MODELS :
      BetterOfTwo(model_registry, mm_last.task_type, i, j) => mm_last.best_model = i

\* What the selector does keep: the better scored of the two is returned whenever its
\* composite score is above the -1.0 that best_score starts from.
HigherScoreWinsAboveFloor ==
  mm_last.op = "best" =>
    \A i, j \in 1..MAX_MODELS :
      /\ BetterOfTwo(model_registry, mm_last.task_type, i, j)
      /\ model_score(model_registry[i]) > -1000
      => mm_last.best_model = i

\* Two such profiles met by a selection, above the floor and below it.
BetterOfTwoAboveFloor ==
  /\ mm_last.op = "best"
  /\ \E i, j \in 1..MAX_MODELS :
       /\ BetterOfTwo(model_registry, mm_last.task_type, i, j)
       /\ model_score(model_registry[i]) > -1000
       /\ mm_last.best_model = i


\* The input has one of the command action words as a substring.
HasActionWord(text) ==
  \E i \in 1..Len(command_actions) :
    \E k \in 0..(Len(text) - Len(command_actions[i])) :
      \A n \in 1..Len(command_actions[i]) : text[k + n] = command_actions[i][n]

\* C18: classify labels "git add all files and push" as "command" and "hello how are you
\* today" as "chat"; the label is "command" exactly when the input has one of the command
\* action words as a substring and "chat" otherwise; classify runs nothing and leaves the
\* history as it was.
C18_ClassifyLabel ==
  Answered("classify") =>
     /\ Carries(sent, "classification")
     /\ Field(sent, "classification").text =
          (IF HasActionWord(SentCommand) THEN TextCommand ELSE TextChat)
     /\ (SentCommand = TextGitAdd => Field(sent, "classification").text = TextCommand)
     /\ (SentCommand = TextHello => Field(sent, "classification").text = TextChat)
     /\ sent.ran = <<>>
     /\ sent.history_after = sent.history_before

\* An input with a chat word and an action word has been classified in a session that has
\* a history.
C18_Witness ==
  /\ Answered("classify")
  /\ SentCommand = TextHelloList
  /\ Field(sent, "classification").text = TextCommand
  /\ sent.history_before # <<>>


\* The current model is the one that the last committed switch wrote.
CurrentIsLastSwitch ==
  /\ mm_switch.by = "none" => g_model_manager.current_model = model_manager_init.current_model
  /\ mm_switch.by # "none" => g_model_manager.current_model = mm_switch.model

\* C19: under any interleaving of concurrent automatic selections by different workers, at
\* most one switch of the current model is committed within one cooldown interval, and the
\* current model is the one written by the last committed switch.
C19_OneSwitchPerCooldown ==
  /\ [][(/\ mm_switch' # mm_switch
          /\ mm_switch.by = "select"
          /\ mm_switch'.by = "select")
         => mm_switch'.at - mm_switch.at >= SWITCH_COOLDOWN]_vars
  /\ []CurrentIsLastSwitch

\* What the lock of the commit does keep: the writes of current_model and last_switch are
\* one step, so last_switch is the time that the last switch was given.
SwitchWritesTogether ==
  CurrentIsLastSwitch /\ (mm_switch.by # "none" => g_model_manager.last_switch <= mm_switch.at)


\* The calls that returned and named this profile (a profile never named has none).
CallsNaming(name) == IF name \in StatsNames THEN stats_calls[name] ELSE 0

\* The call that returned last left the registry as it was when the call got the lock,
\* but for one counter of the profile it named, one higher.
OneCounterOfNamed(before, after, model_name, success) ==
  \A j \in 1..MAX_MODELS :
    IF before[j].name = model_name
      THEN /\ after[j].success_count = before[j].success_count + (IF success THEN 1 ELSE 0)
           /\ after[j].failure_count = before[j].failure_count + (IF success THEN 0 ELSE 1)
           /\ after[j].name = before[j].name
           /\ after[j].enabled = before[j].enabled
           /\ after[j].priority = before[j].priority
      ELSE after[j] = before[j]

\* C20: each model_manager_update_stats call raises exactly one of success_count and
\* failure_count of the named profile by one and leaves every other profile, and every
\* profile when the name is unknown, unchanged; whenever no call is under way, success_count
\* + failure_count of each profile is the number of completed calls that named it.
C20_StatsCounted ==
  /\ mm_last.op = "update_stats" =>
       OneCounterOfNamed(mm_last.before, mm_last.after, mm_last.model_name, mm_last.success)
  /\ (\A t \in MMThreads : stats_threads[t].pc = "idle") =>
       \A j \in 1..MAX_MODELS :
         model_registry[j].success_count + model_registry[j].failure_count
           = CallsNaming(model_registry[j].name)

\* Ten calls and more have named one profile, with successes and failures among them, so
\* that its score was recomputed, and a call with an unknown name has returned too.
C20_Witness ==
  /\ \A t \in MMThreads : stats_threads[t].pc = "idle"
  /\ stats_calls[ModelMistral] >= 10
  /\ stats_calls[ModelUnknown] >= 1
  /\ mm_last.op = "update_stats"
  /\ mm_last.model_name = ModelMistral
  /\ \E j \in 1..MAX_MODELS :
       /\ model_registry[j].name = ModelMistral
       /\ model_registry[j].success_count > 0
       /\ model_registry[j].failure_count > 0
       /\ model_registry[j].performance_score # InitialRegistry[j].performance_score


\* C21: the performance score of every profile stays within [0, 1] after any sequence of
\* model_manager_update_stats calls with latencies that are not negative, those above
\* thirty seconds included.
C21_ScoreInUnitRange ==
  \A j \in 1..MAX_MODELS :
    /\ model_registry[j].performance_score >= 0
    /\ model_registry[j].performance_score <= 1000

\* What the formula does keep: the score is within [0, 1] as long as the profile's average
\* response time is at most thirty seconds.
ScoreInRangeUnderThirtySeconds ==
  \A j \in 1..MAX_MODELS :
    model_registry[j].avg_response_time <= 30000 =>
      /\ model_registry[j].performance_score >= 0
      /\ model_registry[j].performance_score <= 1000


\* C22: select_best_model returns an enabled profile whose task types contain the type
\* asked for whenever there is one, and the first registry entry only when there is none.
C22_SelectsSupportingProfile ==
  mm_last.op = "best" =>
    IF Candidates(model_registry, mm_last.task_type) # {}
      THEN mm_last.best_model \in Candidates(model_registry, mm_last.task_type)
      ELSE mm_last.best_model = 1

\* What the selector does keep: an enabled supporting profile is returned whenever one of
\* them scores above the -1.0 that best_score starts from, the first entry when none does.
SelectsSupportingAboveFloor ==
  mm_last.op = "best" =>
    IF \E i \in Candidates(model_registry, mm_last.task_type) :
          model_score(model_registry[i]) > -1000
      THEN mm_last.best_model \in Candidates(model_registry, mm_last.task_type)
      ELSE mm_last.best_model = 1


\* The places of a pattern row where a keyword ends or begins.
Bars(pattern) ==
  {0, Len(pattern) + 1} \cup {k \in 1..Len(pattern) : pattern[k] = "|"}

\* The keywords of a pattern row: its alternatives, those written with a wildcard left out.
Keywords(pattern) ==
  {w \in {SubSeq(pattern, a + 1, b - 1) :
            <<a, b>> \in {ab \in Bars(pattern) \X Bars(pattern) :
                            /\ ab[1] < ab[2]
                            /\ \A k \in Bars(pattern) : ~(ab[1] < k /\ k < ab[2])}} :
     \A n \in 1..Len(w) : w[n] # "*"}

\* How many keywords of the task type's group are substrings of the lower-cased command.
KeywordCount(lower_command, task_type) ==
  Cardinality({w \in UNION {Keywords(task_patterns[i][2]) :
                              i \in {r \in 1..Len(task_patterns) :
                                       task_patterns[r][1] = task_type}} :
                 strstr(lower_command, w)})

\* The type with the highest count, the earlier one on a tie, general without a match.
KeywordTask(command) ==
  LET lower_command == [i \in 1..Len(command) |-> tolower(command[i])]
      count(i) == KeywordCount(lower_command, task_types_order[i])
      winners == {i \in 1..7 :
                    (count(i) > 0) /\ (\A j \in 1..7 : count(j) <= count(i))
                                   /\ (\A e \in 1..(i - 1) : count(e) < count(i))}
  IN  IF winners = {} THEN "general" ELSE task_types_order[CHOOSE i \in winners : TRUE]

\* C23: classify_task_type returns the task type whose keyword group has the highest match
\* count against the lower-cased command, the earlier type on a tie and general without a
\* match; a command with the keyword "git" is dev_ops, one with "ping" is network_ops.
C23_ClassifiesByKeywords ==
  \A t \in MMThreads :
    mm_threads[t].pc = "commit" =>
      /\ mm_threads[t].task_type = KeywordTask(mm_threads[t].command)
      /\ (mm_threads[t].command = CmdGitStatus => mm_threads[t].task_type = "dev_ops")
      /\ (mm_threads[t].command = CmdPing => mm_threads[t].task_type = "network_ops")

\* What the classification does keep: the type is general unless a whole pattern row, bars
\* and wildcards as written, is a substring of the lower-cased command.
GeneralUnlessWholeRow ==
  \A t \in MMThreads :
    mm_threads[t].pc = "commit" =>
      \/ mm_threads[t].task_type = "general"
      \/ \E i \in 1..Len(task_patterns) :
            /\ task_patterns[i][1] = mm_threads[t].task_type
            /\ strstr([k \in 1..Len(mm_threads[t].command) |->
                         tolower(mm_threads[t].command[k])], task_patterns[i][2])


\* The place of the first call of that name among the calls, 0 when it is not made.
CallAt(calls, name) ==
  IF \E k \in 1..Len(calls) : calls[k] = name
    THEN CHOOSE k \in 1..Len(calls) :
           calls[k] = name /\ \A e \in 1..(k - 1) : calls[e] # name
    ELSE 0

\* Both calls are made, the first before the second.
CalledBefore(calls, first, second) ==
  0 < CallAt(calls, first) /\ CallAt(calls, first) < CallAt(calls, second)

\* The context was older than the refresh age when the request came.
SentStale == sent.at - sent.context_before.last_update > CONTEXT_STALE_SECONDS

\* C24: an interpret request is handled in this order: refresh of a stale context, task
\* classification with a possible model switch, context summary, backend call; the model
\* selector is consulted before every backend interpretation.
C24_InterpretOrder ==
  Answered("interpret") =>
     /\ SentStale =>
           CalledBefore(sent.calls, "ai_context_update", "model_manager_select_model")
     /\ CalledBefore(sent.calls, "model_manager_select_model", "ai_context_to_summary")
     /\ CalledBefore(sent.calls, "ai_context_to_summary", "ollama_interpret_command")

\* What the handler does keep: a stale context is refreshed before the summary, the summary
\* is made before the backend call, and no action calls the model selector.
InterpretOrderWithoutSelector ==
  /\ Answered("interpret") =>
        /\ SentStale =>
              CalledBefore(sent.calls, "ai_context_update", "ai_context_to_summary")
        /\ CalledBefore(sent.calls, "ai_context_to_summary", "ollama_interpret_command")
  /\ CallAt(sent.calls, "model_manager_select_model") = 0


\* The step hands a request of the session in slot i to handle_client_request.
Dispatches(i) == nreq' = nreq + 1 /\ sent'.handled /\ sent'.slot = i

\* The session in slot i is active: its worker has created its context and waits for a
\* request, the slot is taken and the connection open.
SessionActive(i) ==
  /\ clients[i].pc = "recv"
  /\ clients[i].context.last_update > 0
  /\ clients[i].active
  /\ conns[clients[i].socket_fd] = "session"

\* The step in which a worker ends releases its slot and its connection (the context has
\* no resource of its own: ai_context_free is empty).
EndReleases ==
  \A i \in 1..MAX_CLIENTS :
    (clients[i].pc # "done" /\ clients'[i].pc = "done") =>
      ~clients'[i].active /\ conns'[clients[i].socket_fd] = "closed"

\* C25: a session moves only from connecting to active to closed: no request is dispatched
\* before its context has been created, a closed session dispatches no further request,
\* and closing releases the connection, the context and the slot.
C25_SessionLifecycle ==
  /\ [][\A i \in 1..MAX_CLIENTS : Dispatches(i) => SessionActive(i)]_vars
  /\ [][EndReleases]_vars

\* What the worker does keep: a request is dispatched only after the context was created,
\* and in a session that is active unless cleanup_daemon has closed it and waits in
\* pthread_join for its worker; a worker that ended has released slot and connection.
LifecycleButForCleanup ==
  /\ [][\A i \in 1..MAX_CLIENTS :
          Dispatches(i) =>
            /\ clients[i].pc = "recv"
            /\ clients[i].context.last_update > 0
            /\ \/ SessionActive(i)
               \/ acceptor.pc = "join" /\ acceptor.i = i]_vars
  /\ [][EndReleases]_vars


\* The step answers the message it received: one response, of some bytes, is given to
\* send() before the worker returns to the top of its loop for the next message.
AnswersOnce(i) ==
  /\ sent'.bytes > 0
  /\ clients[i].pc = "recv"
  /\ clients'[i].pc = "loop"

\* C26: within one session every received message results in exactly one response sent on
\* that connection, and the response is sent before the next message of the session is
\* received.
C26_OneResponsePerMessage ==
  [][\A i \in 1..MAX_CLIENTS :
       Dispatches(i) =>
         AnswersOnce(i) /\ conns[clients[i].socket_fd] = "session"]_vars

\* What the worker does keep: each message received is answered by one send() before the
\* next recv(), and the connection it is sent on is open unless cleanup_daemon has closed
\* it and waits for the worker.
OneSendPerMessage ==
  [][\A i \in 1..MAX_CLIENTS :
       Dispatches(i) =>
         /\ AnswersOnce(i)
         /\ \/ conns[clients[i].socket_fd] = "session"
            \/ acceptor.pc = "join" /\ acceptor.i = i]_vars


\* The request answered last had a handler that builds a backend prompt from the context.
BuiltPrompt ==
  /\ sent.handled
  /\ sent.request.valid
  /\ SentAction \in {"interpret", "chat"}
  /\ CallAt(sent.calls, "ai_context_to_summary") > 0

\* C27: when a handler builds a backend prompt from a session's context, the context was
\* refreshed if it was older than 5 seconds: ai_context_needs_refresh is true exactly when
\* now - last_update > 5, and a stale context is refreshed, last_update set to now, before
\* the summary is produced.
C27_StaleRefreshedBeforePrompt ==
  BuiltPrompt =>
     /\ ai_context_needs_refresh(sent.context_before, sent.at) <=> SentStale
     /\ SentStale =>
           /\ CalledBefore(sent.calls, "ai_context_update", "ai_context_to_summary")
           /\ sent.context_after.last_update = sent.at
     /\ ~SentStale =>
           /\ CallAt(sent.calls, "ai_context_update") = 0
           /\ sent.context_after.last_update = sent.context_before.last_update
     /\ sent.at - sent.context_after.last_update <= CONTEXT_STALE_SECONDS

\* A prompt has been built in a session whose context was six seconds old.
C27_Witness ==
  /\ BuiltPrompt
  /\ sent.at - sent.context_before.last_update = CONTEXT_STALE_SECONDS + 1
  /\ sent.context_after.last_update = sent.at

\* A prompt has been built in a session whose context was five seconds old: no refresh.
PromptAtFiveSeconds ==
  /\ BuiltPrompt
  /\ sent.at - sent.context_before.last_update = CONTEXT_STALE_SECONDS
  /\ sent.context_after.last_update = sent.context_before.last_update


\* The request answered last was handled after a refresh of the session's context.
SentRefreshed ==
  /\ sent.handled
  /\ sent.request.valid
  /\ CallAt(sent.calls, "ai_context_update") > 0

\* C28: refresh re-populates every field that create populates (working directory, user,
\* shell, host, environment variables, process list, listening ports, disk usage) as of
\* now, so that after a refresh no snapshot field is older than last_update.
C28_RefreshRepopulatesAll ==
  \A i \in 1..MAX_CLIENTS :
     /\ clients[i].context.identity_at >= clients[i].context.last_update
     /\ clients[i].context.snapshot_at >= clients[i].context.last_update

\* What holds of a refresh: the directory, the user with the shell and the host are as of
\* last_update in every context, and a refresh leaves the environment variables, the
\* process list, the ports and the disk usage as ai_context_create read them.
RefreshRereadsIdentityOnly ==
  /\ \A i \in 1..MAX_CLIENTS :
        clients[i].context.identity_at = clients[i].context.last_update
  /\ SentRefreshed =>
        /\ sent.context_after.identity_at = sent.at
        /\ sent.context_after.snapshot_at = sent.context_before.snapshot_at
        /\ sent.context_after.snapshot_len = sent.context_before.snapshot_len


\* C29: the context summary passed to the backend is read and written only by the
\* session's own worker: from the moment a worker has its summary until its backend call
\* has read it, the buffer holds that worker's summary, whole, and what a backend call
\* read was written for the session that made the call.
C29_SummaryOwnedByWorker ==
  \A t \in 1..MAX_CLIENTS :
     /\ sum_threads[t].pc = "backend" => summary.of = t /\ summary.state = "whole"
     /\ sum_threads[t].read.of \in {0, t}
     /\ sum_threads[t].read.state \in {"empty", "whole"}

\* What holds of the buffer: a whole summary is the one of the last worker that called
\* ai_context_to_summary, formatted from that worker's context as it is, and a worker
\* alone in the daemon reads its own.
SummaryIsLastWriters ==
  /\ summary.state = "whole" =>
        summary.as_of = sum_threads[summary.of].context.identity_at
  /\ \A t \in 1..MAX_CLIENTS :
        (sum_threads[t].pc = "backend" /\ \A o \in 1..MAX_CLIENTS \ {t} : sum_threads[o].calls = 0)
           => summary = [of |-> t, as_of |-> sum_threads[t].context.identity_at,
                         state |-> "whole"]


\* The text with its letters lowered.
Lowered(text) == [i \in 1..Len(text) |-> tolower(text[i])]

\* The entries of a store that are accepted and whose natural text equals the query when
\* both are lowered; the last of a set of indexes.
Matching(entries, natural) ==
  {i \in 1..Len(entries) :
     entries[i].accepted # 0 /\ Lowered(entries[i].natural_command) = Lowered(natural)}
Latest(indexes) == CHOOSE i \in indexes : \A j \in indexes : j <= i

\* C30: suggest(natural) returns the interpreted command of the most recently recorded
\* entry that is accepted and whose natural text equals the query case-insensitively; it
\* returns no suggestion when no such entry exists, and never returns the command of a
\* rejected entry.  The entries are taken as they were recorded.
C30_SuggestLatestAccepted ==
  fb_suggest.calls > 0 =>
     LET hits == Matching(fb_suggest.given, fb_suggest.natural)
     IN  IF hits = {}
           THEN fb_suggest.rc = 0
           ELSE /\ fb_suggest.rc = 1
                /\ fb_suggest.suggested =
                      strncpy(fb_suggest.given[Latest(hits)].interpreted_command,
                              fb_suggest.size - 1)

\* C30, amended: the same of the entries as the store holds them, the natural text and the
\* interpreted command each cut to their first 511 bytes; the command is returned cut to
\* the caller's buffer, and nothing is returned for a rejected entry.
C30_SuggestLatestAcceptedStored ==
  fb_suggest.calls > 0 =>
     LET hits == Matching(fb_suggest.db, fb_suggest.natural)
     IN  /\ IF hits = {}
               THEN fb_suggest.rc = 0 /\ fb_suggest.suggested = <<>>
               ELSE /\ fb_suggest.rc = 1
                    /\ fb_suggest.suggested =
                          strncpy(fb_suggest.db[Latest(hits)].interpreted_command,
                                  fb_suggest.size - 1)
         /\ fb_suggest.rc = 1 =>
               \E i \in 1..Len(fb_suggest.db) :
                  /\ fb_suggest.db[i].accepted # 0
                  /\ fb_suggest.suggested =
                        strncpy(fb_suggest.db[i].interpreted_command, fb_suggest.size - 1)

\* A suggestion was returned from a store of two accepted entries with the query's text in
\* different capitals and different commands, and a newer rejected entry with that text:
\* the newer accepted one, whose text differs from the query in case, gave the command.
C30_Witness ==
  /\ fb_suggest.rc = 1
  /\ Len(fb_suggest.db) = 3
  /\ \A i \in 1..3 : Lowered(fb_suggest.db[i].natural_command) = Lowered(fb_suggest.natural)
  /\ fb_suggest.db[1].accepted # 0 /\ fb_suggest.db[2].accepted # 0
  /\ fb_suggest.db[3].accepted = 0
  /\ fb_suggest.db[1].interpreted_command # fb_suggest.db[2].interpreted_command
  /\ fb_suggest.db[2].natural_command # fb_suggest.natural
  /\ fb_suggest.suggested = fb_suggest.db[2].interpreted_command


\* C31: a record call appends its entry and persists the store inside one critical section
\* of the feedback lock: no other record call modifies the store between the append and
\* the persist, so the store a record call writes has that call's entry as its last
\* element.
C31_RecordPersistsOwnEntryLast ==
  (fb_written.by # 0 /\ fb_written.ok) =>
     /\ Len(fb_written.entries) > 0
     /\ fb_written.entries[Len(fb_written.entries)] = fb_written.entry

\* What holds of a record call's save: it writes the store as it is when the save has the
\* lock, whatever other calls have appended or evicted since the call's own append.
RecordPersistsStoreAtSave ==
  (fb_written.by # 0 /\ fb_written.ok) => fb_written.entries = fb_written.db

\* A record call has written a store that does not hold the call's entry at all.
RecordWroteWithoutOwnEntry ==
  /\ fb_written.by # 0 /\ fb_written.ok
  /\ \A i \in 1..Len(fb_written.entries) : fb_written.entries[i] # fb_written.entry

\* The workers whose ollama_client call is a backend request of interpret or chat.
Requesting == {t \in 1..NumWorkers : oc_threads[t].call \in {"interpret", "chat"}}

\* C32: a backend request is attempted at most 5 times and stops at the first success; the
\* wait between attempts doubles from 1 second and never exceeds 16 seconds; when all
\* attempts fail the call returns an error, which the daemon answers with status error.
C32_RetriesBoundedWithBackoff ==
  \A t \in Requesting :
     LET w == oc_threads[t]
     IN  /\ w.performs <= 5
         /\ w.successes <= 1
         /\ w.successes = 1 => w.pc \in {"after", "done"} /\ w.res = "CURLE_OK"
         /\ w.pc = "perform" => w.performs = Len(w.slept)
         /\ \A i \in 1..Len(w.slept) :
               /\ w.slept[i] <= 16
               /\ i = 1 => w.slept[i] = 1
               /\ i > 1 => w.slept[i] = 2 * w.slept[i - 1]
         /\ (w.pc = "done" /\ w.performs = 5 /\ w.successes = 0) =>
               /\ w.rc = -1
               /\ Field([fields |-> w.fields], "status").text = StatusError

\* A backend request has failed five times, with waits of 1, 2, 4 and 8 seconds between the
\* attempts, and was answered with status error.
C32_Witness ==
  \E t \in Requesting :
     /\ oc_threads[t].pc = "done"
     /\ oc_threads[t].performs = 5
     /\ oc_threads[t].successes = 0
     /\ SubSeq(oc_threads[t].slept, 1, 4) = <<1, 2, 4, 8>>
     /\ oc_threads[t].rc = -1
     /\ Field([fields |-> oc_threads[t].fields], "status").text = StatusError

\* A backend request has succeeded at its third attempt and made no fourth.
SucceededAtThirdAttempt ==
  \E t \in Requesting :
     /\ oc_threads[t].pc = "done"
     /\ oc_threads[t].performs = 3
     /\ oc_threads[t].successes = 1
     /\ oc_threads[t].slept = <<1, 2>>


\* The workers between the lock and the unlock of ollama_interpret_command.
Interpreting == {t \in 1..NumWorkers : oc_threads[t].pc \in {"perform", "sleep", "after"}}

\* C34: the shared backend HTTP handle is used by at most one session worker at a time: no
\* status request (reachability check or model listing) uses the handle while another
\* worker's interpret or chat backend call is in progress.
C34_HandleUsedByOneWorker ==
  /\ Cardinality(g_client.users) <= 1
  /\ \A t \in 1..NumWorkers :
        oc_threads[t].pc \in {"in_check", "in_list"} => Interpreting \ {t} = {}

\* What holds of the handle: the interpret and chat calls use it one at a time, and every
\* other use at the same time is one of a status request.
HandleSharedOnlyWithStatus ==
  /\ Cardinality(Interpreting) <= 1
  /\ \A t \in g_client.users :
        oc_threads[t].pc \in {"perform", "sleep", "after", "in_check", "in_list"}
  /\ \A t \in g_client.users \ Interpreting : oc_threads[t].call = "status"

\* The mutex is held exactly by the worker between lock and unlock; a call that timed out
\* on the lock returned -1 with no request made.
BackendLockDiscipline ==
  /\ Cardinality(Interpreting) <= 1
  /\ \A t \in 1..NumWorkers : (g_client.mutex = t) <=> (t \in Interpreting)
  /\ g_client.mutex \in 0..NumWorkers
  /\ \A t \in Requesting :
        oc_threads[t].res = "ETIMEDOUT" =>
           /\ oc_threads[t].pc = "done"
           /\ oc_threads[t].rc = -1
           /\ oc_threads[t].performs = 0
           /\ Field([fields |-> oc_threads[t].fields], "status").text = StatusError

\* C39: backend interpretation calls are mutually exclusive and never deadlock: a worker
\* that cannot obtain the backend lock within 5 seconds returns an error without contacting
\* the backend, every worker that obtains the lock releases it on every return path, and
\* so every call returns.
C39_ExclusiveAndDeadlockFree ==
  /\ []BackendLockDiscipline
  /\ \A t \in 1..NumWorkers :
        (oc_threads[t].pc \in {"lock", "perform", "sleep", "after"})
           ~> (oc_threads[t].pc = "done" /\ g_client.mutex # t)

\* A call has timed out on the lock while the other worker was in its fifth attempt, and
\* that worker has since returned and released the lock.
C39_Witness ==
  \E t \in Requesting, u \in Requesting :
     /\ t # u
     /\ oc_threads[t].res = "ETIMEDOUT" /\ oc_threads[t].rc = -1
     /\ oc_threads[u].pc = "done" /\ oc_threads[u].performs = 5
     /\ g_client.mutex = 0


\* The connections whose descriptor the daemon has given up: the accept path closed it
\* (no thread, or no free slot), or its session ended.
Ended == {fd \in 1..MaxConns : conns[fd] \in {"closed", "refused", "rejected"}}

\* C33: every accepted connection's socket is closed exactly once over its lifetime, on
\* every path (disconnect, thread creation failure, table full, shutdown): no descriptor is
\* closed twice, so the session's thread and cleanup_daemon never both close it, and a
\* connection that has ended was closed once.
C33_SocketClosedOnce ==
  /\ \A fd \in 1..MaxConns : closes[fd] <= 1
  /\ \A fd \in Ended : closes[fd] = 1

\* What holds of the descriptors: each one that has ended was closed, one that the accept
\* path gave up was closed once, and a second close() happens only after cleanup_daemon
\* has started, on a session that it found active.
SocketClosedTwiceOnlyInCleanup ==
  /\ \A fd \in 1..MaxConns : closes[fd] \in 0..2
  /\ \A fd \in Ended : closes[fd] >= 1
  /\ \A fd \in 1..MaxConns : conns[fd] \in {"refused", "rejected"} => closes[fd] = 1
  /\ \A fd \in 1..MaxConns :
        closes[fd] = 2 =>
           /\ ~g_daemon.running
           /\ acceptor.pc \in {"cleanup", "join", "finished"}
           /\ conns[fd] = "closed"
  /\ acceptor.pc = "finished" =>
        \A fd \in 1..MaxConns : conns[fd] # "none" => closes[fd] >= 1

\* cleanup_daemon has closed the descriptor of an active session and waits in
\* pthread_join, and the session's thread has then closed the same descriptor again.
SocketClosedByBoth ==
  /\ acceptor.pc = "join"
  /\ clients[acceptor.i].pc = "done"
  /\ closes[clients[acceptor.i].socket_fd] = 2


\* The slots whose worker thread has been created and has not yet reached the end of
\* client_thread.
Live == {i \in 1..MAX_CLIENTS : clients[i].pc \in {"start", "loop", "recv"}}

\* C36: a slot of the session table is owned by at most one live worker: while the
\* acceptor can still assign slots, the slot of a live worker is active (so the scan passes
\* it) and live workers hold different sockets; and the acceptor writes a slot's socket and
\* starts a worker on it only when the slot's previous worker has ended or never was.
C36_SlotOwnedByOneWorker ==
  /\ [](/\ \A i \in Live :
              acceptor.pc \in {"accept", "blocked", "scan"} => clients[i].active
        /\ \A i \in Live, j \in Live : i # j => clients[i].socket_fd # clients[j].socket_fd)
  /\ [][\A i \in 1..MAX_CLIENTS :
           (\/ clients'[i].socket_fd # clients[i].socket_fd
            \/ (clients'[i].pc = "start" /\ clients[i].pc # "start"))
              => /\ i \notin Live
                 /\ ~clients[i].active
                 /\ acceptor.pc = "scan" /\ acceptor.i = i]_vars

\* C36's case: the first slot holds its second session, whose worker is alive, after the
\* worker of its first session has ended; the second slot was never used.
C36_Witness ==
  /\ 1 \in Live
  /\ clients[1].socket_fd = 2
  /\ conns[1] = "closed" /\ conns[2] = "session"
  /\ clients[2].pc = "none"


\* The answered request has changed the command history of its session.
HistoryChanged == sent.handled /\ sent.history_after # sent.history_before

\* The answer to an execute request is the confirmation marker followed by the command.
AnsweredWithMarker ==
  /\ Answered("execute")
  /\ HasField(sent, "execution_result")
  /\ Field(sent, "execution_result").text = TextConfirmRequired \o SentCommand

\* C37: a command is appended to the session's command history only when it is run: a
\* request that changed the history ran a command, and an execute request that is answered
\* with the confirmation marker leaves the history as it was.
C37_HistoryOnlyWhenRun ==
  /\ HistoryChanged => sent.ran # <<>>
  /\ AnsweredWithMarker => sent.history_after = sent.history_before

\* What holds of the history: it changes only in a request that reached
\* execute_command_safely, which is every execute request and an interpret request whose
\* command came back while no confirmation is required; and a request that ran a command
\* leaves a history that is not empty.
HistoryWhenExecuteReached ==
  /\ HistoryChanged =>
        \/ Answered("execute")
        \/ /\ Answered("interpret")
           /\ ~sent.confirm
           /\ HasField(sent, "execution_result")
  /\ (sent.handled /\ sent.ran # <<>>) => sent.history_after # <<>>

\* An execute request was answered with the marker, nothing was run, and the history has
\* the command as a new entry.
MarkerAnswerGrewHistory ==
  /\ AnsweredWithMarker
  /\ sent.confirm
  /\ sent.ran = <<>>
  /\ Len(sent.history_after) = Len(sent.history_before) + 1


\* C35: the current model of the model manager is always an enabled profile of the
\* registry, after any sequence of init, configuration load, selection and set_model.
C35_CurrentModelEnabled ==
  /\ g_model_manager.current_model \in 1..Len(model_registry)
  /\ model_registry[g_model_manager.current_model].enabled

\* What holds of the current model: it is always an entry of the registry, and a
\* set_model that returned 0 made an entry current that was enabled at that time (the
\* registry is not reloaded in these runs).
CurrentModelInRegistry ==
  /\ g_model_manager.current_model \in 1..Len(model_registry)
  /\ (mm_last.op = "set_model" /\ mm_last.rc = 0) =>
        model_registry[mm_last.cur_after].enabled

\* What holds of the selector: it returns an enabled entry or, when no enabled entry
\* that supports the task scores above -1.0, the first entry whatever its enabled flag is.
SelectorReturnsEnabledOrFirst ==
  [][(mm_last' # mm_last /\ mm_last'.op = "best") =>
        /\ mm_last'.best_model \in 1..Len(model_registry)
        /\ \/ model_registry[mm_last'.best_model].enabled
           \/ /\ mm_last'.best_model = 1
              /\ \A k \in 1..Len(model_registry) :
                    ~(/\ model_registry[k].enabled
                      /\ model_supports_task(model_registry[k], mm_last'.task_type)
                      /\ model_score(model_registry[k]) > -1000)]_vars

\* models.json has disabled the first entry of the registry, which model_manager_init made
\* the current model.
CurrentModelDisabledByLoad ==
  /\ mm_last.op = "load_config"
  /\ mm_last.rc = 0
  /\ g_model_manager.current_model = 1
  /\ ~model_registry[1].enabled

\* The selector has returned the first entry of the registry while that entry is disabled.
SelectorReturnedDisabled ==
  /\ mm_last.op = "best"
  /\ ~model_registry[mm_last.best_model].enabled


\* What model_manager_set_model does, as its last call shows: a call that returned 0 made
\* the named entry current and set last_switch to the time of the call, whatever the time
\* since the last switch was; a call that failed changed neither.
SetModelRestartsCooldown ==
  mm_last.op = "set_model" =>
     IF mm_last.rc = 0
       THEN /\ mm_last.cur_after = find_model(model_registry, mm_last.command)
            /\ model_registry[mm_last.cur_after].name = mm_last.command
            /\ mm_last.ls_after = mm_last.at
       ELSE /\ mm_last.cur_after = mm_last.cur_before
            /\ mm_last.ls_after = mm_last.ls_before

\* C38: a successful set_model is not subject to the cooldown and restarts it: it makes the
\* named model current whatever the time since the last switch, sets last_switch to now,
\* and no automatic switch is committed within SWITCH_COOLDOWN seconds after it; a failed
\* set_model leaves last_switch as it was.
C38_NoAutoSwitchAfterSetModel ==
  /\ []SetModelRestartsCooldown
  /\ [][(/\ mm_switch.by = "set_model"
         /\ mm_switch'.by = "select")
          => now - mm_switch.at >= SWITCH_COOLDOWN]_vars

\* A set_model call was made less than SWITCH_COOLDOWN after the last switch and returned 0.
SetModelInsideCooldown ==
  /\ mm_last.op = "set_model"
  /\ mm_last.rc = 0
  /\ mm_last.ls_before > 0
  /\ mm_last.at - mm_last.ls_before < SWITCH_COOLDOWN
  /\ mm_last.cur_after # mm_last.cur_before

\* An automatic selection that passed its cooldown test before a set_model call has
\* committed a switch in the same second as that call.
AutoSwitchRightAfterSetModel ==
  /\ mm_last.op = "select"
  /\ mm_last.rc = 1
  /\ mm_switch.by = "select"
  /\ mm_last.ls_before = mm_switch.at
  /\ mm_last.ls_gate < mm_last.ls_before
  /\ mm_last.cur_after # mm_last.cur_before


==============================================================================
